---- MODULE Spec2Model ----
(***************************************************************************)
(* A model of GameBeam (xalaetrx/GameBeam): the connection code codec and  *)
(* get_local_ip of utils.py, the release installers and process managers   *)
(* of moonlight.py and sunshine.py, and the config store, the slots, the   *)
(* status timer and the workers of qt_gui.py.                              *)
(*                                                                         *)
(* Text is a sequence of code points (naturals) where the code computes on *)
(* the characters' values (the codec), and a sequence of one-character     *)
(* strings where it only compares them (asset names).                      *)
(* Each component has its own specification over the shared variables; the *)
(* variables of the other components keep their idle values.               *)
(***************************************************************************)
EXTENDS Integers, Sequences, FiniteSets, TLC

VARIABLES
    \* ---- utils.py: the connection code codec
    ckind,      \* "ip": an address is encoded, then decoded; "raw": a typed string is decoded
    cinput,     \* the argument of the first call
    ccode,      \* the string handed to decode_connection_code
    cresult,    \* the return value of decode_connection_code
    cpc,        \* "start" | "encoded" | "decoded" | "idle"
    \* ---- moonlight.py / sunshine.py: one run of Installer.install
    tool,       \* "moonlight" | "sunshine": the installer class
    via,        \* "worker": InstallWorker (Qt signals); "thread": start_install_thread
    ipc,        \* the place install() has reached
    assets,     \* the release index's asset list
    url,        \* download_url
    header,     \* the download's content-length header
    dl,         \* bytes received so far
    events,     \* the percentages passed to progress_callback, in order
    done,       \* the steps of install() that completed
    result,     \* what install() returned
    escaped,    \* an exception left install()
    dirExists,  \* target_dir is on disk
    zipExists,  \* the temporary archive is on disk
    exe,        \* exe_path
    wpc,        \* the worker: "running" | "finished" (terminal callback made)
    queue,      \* Qt signals emitted by the worker thread, not yet delivered
    delivered,  \* the callbacks the UI (or the thread's caller) has received
    \* ---- sunshine.py / moonlight.py: the executable search
    fs,          \* the paths that exist on disk
    custom_path, \* SunshineManager._custom_path
    rop,         \* the last call: "set_custom_path" | "find" | "start" | "runner"
                 \* | "launch" | "open_gui"
    rarg,        \* its path argument
    rpath,       \* the path it resolved
    rret,        \* what start_service, launch or open_gui returned
    exe_path,    \* MoonlightRunner.exe_path of the runner in use
    largs,       \* the parameters of launch, when the last call is launch
    spawn,       \* the subprocess.Popen call the last call made
    \* ---- sunshine.py: SunshineManager.initialize_credentials
    cargs,      \* username, password, and the password of the twin run
    coutcome,   \* what subprocess.run did
    crun,       \* the run: its return value, subprocess and log
    ctwin,      \* the twin run: the same call with the other password
    \* ---- sunshine.py: SunshineAPI
    auth,       \* self.auth
    pcall,      \* the last call: "init" | "update_auth" | "send_pin"
    preq,       \* the request send_pin posted
    poutcome,   \* what requests.post did
    pret,       \* what send_pin returned
    \* ---- qt_gui.py: the config store
    cfg,        \* the mapping handed to save_config
    linesep,    \* os.linesep
    file,       \* gb_config.txt
    faults,     \* the calls that caught an exception
    loaded,     \* the mapping load_config returned
    kpc,        \* "start" | "saved" | "loaded" | "idle"
    \* ---- utils.py: get_local_ip
    gudp,       \* what the UDP socket calls did
    ghost,      \* what gethostname / getaddrinfo did
    gpc,        \* "start" | "returned" | "idle"
    gresult,    \* what get_local_ip returned, and the step that returned it
    \* ---- qt_gui.py: ClientScreen.start_stream
    stext,  \* edit_conn_code.text()
    sres,  \* the resolution picked in combo_res
    sbox,  \* the message box start_stream showed
    spc,  \* "start" | "done" | "idle"
    \* ---- qt_gui.py: the Sunshine status timer and its workers
    stimer,  \* MainWindow.status_timer
    sworkers,  \* every SunshineStatusWorker made: "started" | "emitted" | "finished"
    sticks,  \* the timeouts of status_timer so far
    squeue,  \* the result signals queued to the UI thread
    slabel,  \* what update_status last showed: "reachable" | "stopped"
    sclick,  \* the slots connected to btn_status_action.clicked, in order
    \* ---- qt_gui.py: the slots of InstallWorker.finished
    ntool,  \* the tool whose InstallWorker ran
    nargs,  \* the arguments of its finished signal
    npath,  \* self.sunshine_path or self.moonlight_path, by the tool
    nconfig,  \* self.config: the two path keys
    nsaved,  \* the mapping last handed to save_config
    nlabel,  \* the text of the tool's path label
    nbox,  \* the message box the slot showed
    noverlay,  \* the install overlay is up
    npc,  \* "queued" | "handled" | "idle"
    ncalls,  \* the calls the slot made, in order
    \* ---- qt_gui.py: the slots of the host and settings screens
    hlast,  \* the slot or run() that ran: "none" before
    hlog,  \* the blocking calls made, each with the thread that made it
    hbox,  \* the message box the slot showed
    hcreds,  \* self.config: the credential keys, once saved by save_config
    hleft    \* slot runs and run() calls still to come

codecVars == <<ckind, cinput, ccode, cresult, cpc>>

installVars == <<tool, via, ipc, assets, url, header, dl, events, done, result, escaped,
                 dirExists, zipExists, exe, wpc, queue, delivered>>

resolveVars == <<fs, custom_path, rop, rarg, rpath, rret, exe_path, largs, spawn>>

credsVars == <<cargs, coutcome, crun, ctwin>>

pinVars == <<auth, pcall, preq, poutcome, pret>>

configVars == <<cfg, linesep, file, faults, loaded, kpc>>

localIpVars == <<gudp, ghost, gpc, gresult>>

streamVars == <<stext, sres, sbox, spc>>

statusVars == <<stimer, sworkers, sticks, squeue, slabel, sclick>>

settingsVars == <<ntool, nargs, npath, nconfig, nsaved, nlabel, nbox, noverlay, npc, ncalls>>

handlersVars == <<hlast, hlog, hbox, hcreds, hleft>>

vars == <<codecVars, installVars, resolveVars, pinVars, configVars, credsVars, localIpVars, streamVars, statusVars, settingsVars, handlersVars>>

\* What the calls of one component leave alone: the other components' state.
notCodec == <<installVars, resolveVars, pinVars, configVars, credsVars, localIpVars, streamVars, statusVars, settingsVars, handlersVars>>

notInstall == <<codecVars, resolveVars, pinVars, configVars, credsVars, localIpVars, streamVars, statusVars, settingsVars, handlersVars>>

notResolve == <<codecVars, installVars, pinVars, configVars, credsVars, localIpVars, streamVars, statusVars, settingsVars, handlersVars>>

notPin == <<codecVars, installVars, resolveVars, configVars, credsVars, localIpVars, streamVars, statusVars, settingsVars, handlersVars>>

notConfig == <<codecVars, installVars, resolveVars, pinVars, credsVars, localIpVars, streamVars, statusVars, settingsVars, handlersVars>>

notCreds == <<codecVars, installVars, resolveVars, pinVars, configVars, localIpVars, streamVars, statusVars, settingsVars, handlersVars>>

notLocalIp == <<codecVars, installVars, resolveVars, pinVars, configVars, credsVars, streamVars, statusVars, settingsVars, handlersVars>>

notStream == <<codecVars, installVars, resolveVars, pinVars, configVars, credsVars, localIpVars, statusVars, settingsVars, handlersVars>>

notStreamResolve == <<codecVars, installVars, pinVars, configVars, credsVars, localIpVars, statusVars, settingsVars, handlersVars>>

notStatus == <<codecVars, installVars, resolveVars, pinVars, configVars, credsVars, localIpVars, streamVars, settingsVars, handlersVars>>

notSettings == <<codecVars, installVars, resolveVars, pinVars, configVars, credsVars, localIpVars, streamVars, statusVars, handlersVars>>

notSettingsResolve == <<codecVars, installVars, pinVars, configVars, credsVars, localIpVars, streamVars, statusVars, handlersVars>>

notHandlers == <<codecVars, installVars, resolveVars, pinVars, configVars, credsVars, localIpVars, streamVars, statusVars, settingsVars>>

notHandlersBackend == <<codecVars, installVars, configVars, localIpVars, streamVars, settingsVars>>

(***************************************************************************)
(* Values shared by the components.                                        *)
(***************************************************************************)

\* Python's None, and a returned string, as one comparable shape.
None == [ok |-> FALSE, val |-> <<>>]

Some(s) == [ok |-> TRUE, val |-> s]

\* A path argument or result: None, or a str.
NoPath == [some |-> FALSE, path |-> ""]

PathOf(p) == [some |-> TRUE, path |-> p]

\* A call's return value (success, message), before the call returned.
NoReturn == [ok |-> FALSE, msg |-> "", returned |-> FALSE]

Return(ok, msg) == [ok |-> ok, msg |-> msg, returned |-> TRUE]

\* requests.post was not called.
NoOutcome == [kind |-> "none", status |-> 0, text |-> "", cls |-> "", msg |-> ""]

NoRequest == [sent |-> FALSE, pin |-> "", auth |-> <<>>]

NoFile == [exists |-> FALSE, data |-> <<>>]

\* initialize_credentials was not called.
NoCreds == [username |-> "", password |-> "", twin |-> ""]

\* subprocess.run was not called.
NoProc == [kind |-> "none", returncode |-> 0, stderr |-> <<>>, msg |-> ""]

\* A piece of a message or log line: a str value, or a text kept as its
\* code points (the captured stderr).
Str(v) == [kind |-> "str", s |-> v, t |-> <<>>]

Txt(t) == [kind |-> "text", s |-> "", t |-> t]

NoRun ==
    [called |-> FALSE, exe |-> NoPath, ok |-> FALSE, msg |-> <<>>, cmd |-> <<>>, log |-> <<>>]

\* A socket call that was not made.
NoLookup == [ok |-> FALSE, ips |-> <<>>]

\* get_local_ip has not returned.
NoAddress == [ip |-> <<>>, step |-> 0]

\* No QTimer yet.
NoTimer == [active |-> FALSE, interval |-> 0]

\* No message box was shown.
NoBox == [kind |-> "none", title |-> "", text |-> ""]

\* QMessageBox.warning(self, title, text)
Warning(title, text) == [kind |-> "warning", title |-> title, text |-> text]

\* QMessageBox.information(self, title, text)
Information(title, text) == [kind |-> "information", title |-> title, text |-> text]

\* save_credentials has not saved a username and password.
NoCredsSaved == [saved |-> FALSE, sunshine_user |-> "", sunshine_pass |-> ""]

\* save_config was not called.
NoSave == [saved |-> FALSE, cfg |-> <<>>]

\* launch was not called.
NoArgs ==
    [host |-> "", width |-> 0, height |-> 0, fps |-> 0, bitrate |-> 0, vsync |-> FALSE,
     app |-> ""]

\* subprocess.Popen was not called.
NoSpawn == [attempted |-> FALSE, cmd |-> <<>>, shell |-> FALSE, threw |-> FALSE]

\* s[from..] and s[..upto], as Python's slices.
DropFirst(s, n) == SubSeq(s, n + 1, Len(s))

StartsWith(s, p) == Len(s) >= Len(p) /\ SubSeq(s, 1, Len(p)) = p

EndsWith(s, p) == Len(s) >= Len(p) /\ SubSeq(s, Len(s) - Len(p) + 1, Len(s)) = p

\* p in s, for sequences.
Contains(s, p) == \E i \in 1..(Len(s) - Len(p) + 1) : SubSeq(s, i, i + Len(p) - 1) = p

RECURSIVE Repeat(_, _)
Repeat(c, n) == IF n <= 0 THEN <<>> ELSE <<c>> \o Repeat(c, n - 1)

(***************************************************************************)
(* utils.py: encode_connection_code / decode_connection_code.              *)
(***************************************************************************)

\* str.encode("utf-8"): one to three bytes a code point (the model's code
\* points stay below 65536); a lone surrogate cannot be encoded.
Utf8EncodeChar(c) ==
    IF c < 128 THEN <<c>>
    ELSE IF c < 2048 THEN <<192 + (c \div 64), 128 + (c % 64)>>
    ELSE <<224 + (c \div 4096), 128 + ((c \div 64) % 64), 128 + (c % 64)>>

IsSurrogate(c) == c >= 55296 /\ c <= 57343

RECURSIVE Utf8Encode(_)
Utf8Encode(s) ==
    IF s = <<>> THEN <<>> ELSE Utf8EncodeChar(Head(s)) \o Utf8Encode(Tail(s))

\* The URL-safe base64 alphabet: A-Z a-z 0-9 - _
B64Char(v) ==
    IF v < 26 THEN 65 + v
    ELSE IF v < 52 THEN 97 + (v - 26)
    ELSE IF v < 62 THEN 48 + (v - 52)
    ELSE IF v = 62 THEN 45
    ELSE 95

\* base64.urlsafe_b64encode: three bytes to four characters, "=" padded.
RECURSIVE B64Encode(_)
B64Encode(b) ==
    IF Len(b) = 0 THEN <<>>
    ELSE IF Len(b) = 1 THEN
        <<B64Char(b[1] \div 4), B64Char((b[1] % 4) * 16), 61, 61>>
    ELSE IF Len(b) = 2 THEN
        <<B64Char(b[1] \div 4),
          B64Char((b[1] % 4) * 16 + (b[2] \div 16)),
          B64Char((b[2] % 16) * 4), 61>>
    ELSE
        <<B64Char(b[1] \div 4),
          B64Char((b[1] % 4) * 16 + (b[2] \div 16)),
          B64Char((b[2] % 16) * 4 + (b[3] \div 64)),
          B64Char(b[3] % 64)>> \o B64Encode(DropFirst(b, 3))

\* str.rstrip("=")
RECURSIVE RStripPad(_)
RStripPad(s) ==
    IF s # <<>> /\ s[Len(s)] = 61 THEN RStripPad(SubSeq(s, 1, Len(s) - 1)) ELSE s

\* "GSP-"
Prefix == <<71, 83, 80, 45>>

\* "ERROR"
ErrorText == <<69, 82, 82, 79, 82>>

encode_connection_code(ip) ==
    IF \E i \in 1..Len(ip) : IsSurrogate(ip[i]) THEN ErrorText
    ELSE Prefix \o RStripPad(B64Encode(Utf8Encode(ip)))

\* str.strip(): the white space Python strips from both ends.
IsSpace(c) == c \in ((9..13) \cup (28..32) \cup {133, 160})

RECURSIVE LStrip(_)
LStrip(s) == IF s # <<>> /\ IsSpace(Head(s)) THEN LStrip(Tail(s)) ELSE s

RECURSIVE RStrip(_)
RStrip(s) ==
    IF s # <<>> /\ IsSpace(s[Len(s)]) THEN RStrip(SubSeq(s, 1, Len(s) - 1)) ELSE s

Strip(s) == LStrip(RStrip(s))

\* if code.startswith("GSP-"): code = code[4:]
StripPrefix(code) == IF StartsWith(code, Prefix) THEN DropFirst(code, 4) ELSE code

\* A mutant of PadCode: the padding is not put back.
PadCodeNone(code) == code

\* pad = len(code) % 4; if pad > 0: code += "=" * (4 - pad)
PadCode(code) ==
    IF Len(code) % 4 > 0 THEN code \o Repeat(61, 4 - (Len(code) % 4)) ELSE code

\* bytes.translate of urlsafe_b64decode: "-" to "+", "_" to "/".
UrlsafeTranslate(c) == IF c = 45 THEN 43 ELSE IF c = 95 THEN 47 ELSE c

\* binascii's table of the standard alphabet; 64 for a character outside it.
B64Val(c) ==
    IF c >= 65 /\ c <= 90 THEN c - 65
    ELSE IF c >= 97 /\ c <= 122 THEN c - 71
    ELSE IF c >= 48 /\ c <= 57 THEN c + 4
    ELSE IF c = 43 THEN 62
    ELSE IF c = 47 THEN 63
    ELSE 64

\* One character of binascii.a2b_base64 as base64.b64decode calls it (not
\* strict): a character outside the alphabet is skipped, a "=" counts as
\* padding only from the third character of a quad on, and enough padding
\* ends the parse (done).
A2bStep(st, c) ==
    IF st.done THEN st
    ELSE IF c = 61 THEN
        IF st.quad >= 2 /\ st.quad + st.pads + 1 >= 4 THEN [st EXCEPT !.done = TRUE]
        ELSE IF st.quad >= 2 THEN [st EXCEPT !.pads = @ + 1]
        ELSE st
    ELSE LET v == B64Val(c) IN
        IF v >= 64 THEN st
        ELSE IF st.quad = 0 THEN [st EXCEPT !.quad = 1, !.left = v, !.pads = 0]
        ELSE IF st.quad = 1 THEN
            [st EXCEPT !.quad = 2, !.left = v % 16, !.pads = 0,
                       !.out = Append(@, st.left * 4 + (v \div 16))]
        ELSE IF st.quad = 2 THEN
            [st EXCEPT !.quad = 3, !.left = v % 4, !.pads = 0,
                       !.out = Append(@, st.left * 16 + (v \div 4))]
        ELSE [st EXCEPT !.quad = 0, !.left = 0, !.pads = 0,
                        !.out = Append(@, st.left * 64 + v)]

\* The loop of a2b_base64 over s[lo..hi], by halves; the left half's state
\* is computed (the test) before the right half starts from it.
RECURSIVE A2bFold(_, _, _, _)
A2bFold(s, lo, hi, st) ==
    IF lo > hi THEN st
    ELSE IF lo = hi THEN A2bStep(st, s[lo])
    ELSE LET mid == (lo + hi) \div 2
             left == A2bFold(s, lo, mid, st)
         IN IF left = left THEN A2bFold(s, mid + 1, hi, left) ELSE left

\* binascii.a2b_base64: what is left of an unfinished quad at the end of the
\* input is an error.
A2bBase64(s) ==
    LET st == A2bFold(s, 1, Len(s),
                      [done |-> FALSE, quad |-> 0, left |-> 0, pads |-> 0, out |-> <<>>]) IN
    IF ~st.done /\ st.quad # 0 THEN [ok |-> FALSE, val |-> <<>>]
    ELSE [ok |-> TRUE, val |-> st.out]

\* base64.urlsafe_b64decode of a str: it must be ASCII, is translated to the
\* standard alphabet and decoded.
urlsafe_b64decode(code) ==
    IF \E i \in 1..Len(code) : code[i] >= 128 THEN [ok |-> FALSE, val |-> <<>>]
    ELSE A2bBase64([i \in 1..Len(code) |-> UrlsafeTranslate(code[i])])

\* One byte of bytes.decode("utf-8"), strict: need continuation bytes are
\* awaited, the next within lo..hi, which is how over-long forms, surrogates
\* and values above U+10FFFF are refused.
Utf8Step(st, b) ==
    IF ~st.ok THEN st
    ELSE IF st.need = 0 THEN
        IF b < 128 THEN [st EXCEPT !.out = Append(@, b)]
        ELSE IF b >= 194 /\ b <= 223 THEN
            [st EXCEPT !.need = 1, !.cp = b - 192, !.lo = 128, !.hi = 191]
        ELSE IF b >= 224 /\ b <= 239 THEN
            [st EXCEPT !.need = 2, !.cp = b - 224,
                       !.lo = IF b = 224 THEN 160 ELSE 128,
                       !.hi = IF b = 237 THEN 159 ELSE 191]
        ELSE IF b >= 240 /\ b <= 244 THEN
            [st EXCEPT !.need = 3, !.cp = b - 240,
                       !.lo = IF b = 240 THEN 144 ELSE 128,
                       !.hi = IF b = 244 THEN 143 ELSE 191]
        ELSE [st EXCEPT !.ok = FALSE]
    ELSE IF b >= st.lo /\ b <= st.hi THEN
        IF st.need = 1 THEN
            [st EXCEPT !.need = 0, !.cp = 0, !.out = Append(@, st.cp * 64 + (b - 128))]
        ELSE [st EXCEPT !.need = @ - 1, !.cp = @ * 64 + (b - 128), !.lo = 128, !.hi = 191]
    ELSE [st EXCEPT !.ok = FALSE]

\* The decoder's loop over b[lo..hi], by halves.
RECURSIVE Utf8Fold(_, _, _, _)
Utf8Fold(b, lo, hi, st) ==
    IF lo > hi THEN st
    ELSE IF lo = hi THEN Utf8Step(st, b[lo])
    ELSE LET mid == (lo + hi) \div 2
             left == Utf8Fold(b, lo, mid, st)
         IN IF left = left THEN Utf8Fold(b, mid + 1, hi, left) ELSE left

\* bytes.decode("utf-8"): a sequence cut short at the end is an error too.
Utf8Decode(b) ==
    LET st == Utf8Fold(b, 1, Len(b),
                      [ok |-> TRUE, need |-> 0, cp |-> 0, lo |-> 128, hi |-> 191,
                       out |-> <<>>]) IN
    IF st.ok /\ st.need = 0 THEN [ok |-> TRUE, val |-> st.out]
    ELSE [ok |-> FALSE, val |-> <<>>]

\* The try block of decode_connection_code; every exception returns None.
decode_connection_code(code) ==
    LET raw == urlsafe_b64decode(PadCode(StripPrefix(Strip(code)))) IN
    IF ~raw.ok THEN None
    ELSE LET text == Utf8Decode(raw.val) IN
        IF text.ok THEN Some(text.val) ELSE None

\* The codec is not in use.
CodecIdle ==
    /\ ckind = "none" /\ cinput = <<>> /\ ccode = <<>> /\ cresult = None /\ cpc = "idle"

\* No executable search was made.
ResolveIdle ==
    /\ fs = {} /\ custom_path = NoPath /\ rop = "none" /\ rarg = NoPath
    /\ rpath = NoPath /\ rret = NoReturn
    /\ exe_path = NoPath /\ largs = NoArgs /\ spawn = NoSpawn

\* No SunshineAPI was made.
PinIdle ==
    /\ auth = <<>> /\ pcall = "none" /\ preq = NoRequest /\ poutcome = NoOutcome
    /\ pret = NoReturn

\* initialize_credentials was not called.
CredsIdle ==
    /\ cargs = NoCreds /\ coutcome = NoProc /\ crun = NoRun /\ ctwin = NoRun

\* get_local_ip was not called.
LocalIpIdle ==
    /\ gudp = NoLookup /\ ghost = NoLookup /\ gpc = "idle" /\ gresult = NoAddress

\* start_stream was not called.
StreamIdle ==
    /\ stext = <<>> /\ sres = <<0, 0>> /\ sbox = NoBox /\ spc = "idle"

\* The window was not built: no status timer, no status worker.
StatusIdle ==
    /\ stimer = NoTimer /\ sworkers = <<>> /\ sticks = 0
    /\ squeue = <<>> /\ slabel = "stopped" /\ sclick = <<>>

\* No install was started from the settings screen.
SettingsIdle ==
    /\ ntool = "none" /\ nargs = [success |-> FALSE, res |-> NoPath] /\ npath = NoPath
    /\ nconfig = <<>> /\ nsaved = NoSave /\ nlabel = "" /\ nbox = NoBox /\ noverlay = FALSE
    /\ npc = "idle" /\ ncalls = <<>>

\* No slot ran.
HandlersIdle ==
    /\ hlast = "none" /\ hlog = {} /\ hbox = NoBox /\ hcreds = NoCredsSaved
    /\ hleft = 0

\* The config store is not in use.
ConfigIdle ==
    /\ cfg = <<>> /\ linesep = <<>> /\ file = NoFile /\ faults = {} /\ loaded = <<>>
    /\ kpc = "idle"

(***************************************************************************)
(* moonlight.py / sunshine.py: MoonlightInstaller.install and              *)
(* SunshineInstaller.install, InstallWorker and start_install_thread.      *)
(***************************************************************************)

UpperChars == <<"A", "B", "C", "D", "E", "F", "G", "H", "I", "J", "K", "L", "M",
                "N", "O", "P", "Q", "R", "S", "T", "U", "V", "W", "X", "Y", "Z">>

LowerChars == <<"a", "b", "c", "d", "e", "f", "g", "h", "i", "j", "k", "l", "m",
                "n", "o", "p", "q", "r", "s", "t", "u", "v", "w", "x", "y", "z">>

\* str.lower() of one character and of a name
LowerChar(c) ==
    IF \E i \in 1..26 : UpperChars[i] = c
    THEN LowerChars[CHOOSE i \in 1..26 : UpperChars[i] = c]
    ELSE c

Lower(name) == [i \in 1..Len(name) |-> LowerChar(name[i])]

Portable == <<"p", "o", "r", "t", "a", "b", "l", "e">>

X64 == <<"x", "6", "4">>

Windows == <<"w", "i", "n", "d", "o", "w", "s">>

DotZip == <<".", "z", "i", "p">>

\* The first tier of the asset search, on the lower-cased name.
Tier1(t, name) ==
    IF t = "moonlight"
    THEN Contains(name, Portable) /\ Contains(name, X64) /\ EndsWith(name, DotZip)
    ELSE Contains(name, Windows) /\ Contains(name, Portable) /\ EndsWith(name, DotZip)

\* The fallback tier.
Tier2(t, name) ==
    IF t = "moonlight"
    THEN Contains(name, Portable) /\ EndsWith(name, DotZip)
    ELSE Contains(name, Windows) /\ EndsWith(name, DotZip)

\* for asset in assets: ... download_url = asset["browser_download_url"]; break
FirstTier1(t, as) ==
    IF \E i \in 1..Len(as) : Tier1(t, Lower(as[i].name))
    THEN Some(as[CHOOSE i \in 1..Len(as) :
                 /\ Tier1(t, Lower(as[i].name))
                 /\ \A j \in 1..(i - 1) : ~Tier1(t, Lower(as[j].name))].url)
    ELSE None

FirstTier2(t, as) ==
    IF \E i \in 1..Len(as) : Tier2(t, Lower(as[i].name))
    THEN Some(as[CHOOSE i \in 1..Len(as) :
                 /\ Tier2(t, Lower(as[i].name))
                 /\ \A j \in 1..(i - 1) : ~Tier2(t, Lower(as[j].name))].url)
    ELSE None

\* The two loops: the fallback runs only if the first found nothing.
SelectAsset(t, as) ==
    IF FirstTier1(t, as).ok THEN FirstTier1(t, as) ELSE FirstTier2(t, as)

\* raise Exception("No suitable ... release found ...")
NoSuitableMessage(t) ==
    IF t = "moonlight" THEN "No suitable Portable release found."
    ELSE "No suitable Windows release found on GitHub."

\* A mutant of DownloadPercent: the download is mapped onto 30..100.
DownloadPercentTo100(n, total) == 30 + ((n * 70) \div total)

\* percent = 30 + int((dl / int(total_length)) * 40)
DownloadPercent(n, total) == 30 + ((n * 40) \div total)

\* The asset names of the release index: archives and installers, with and
\* without the platform tag and "portable", in either case:
\*   Portable-x64.zip, PORTABLE.ZIP, portable-arm.zip, x64.zip, Windows-Portable.ZIP,
\*   windows.zip, setup.exe, portable-x64.7z, portable-windows.7z
AssetNameSamples ==
    { <<"P", "o", "r", "t", "a", "b", "l", "e", "-", "x", "6", "4", ".", "z", "i", "p">>,
      <<"P", "O", "R", "T", "A", "B", "L", "E", ".", "Z", "I", "P">>,
      <<"p", "o", "r", "t", "a", "b", "l", "e", "-", "a", "r", "m", ".", "z", "i", "p">>,
      <<"x", "6", "4", ".", "z", "i", "p">>,
      <<"W", "i", "n", "d", "o", "w", "s", "-", "P", "o", "r", "t", "a", "b", "l", "e", ".", "Z", "I", "P">>,
      <<"w", "i", "n", "d", "o", "w", "s", ".", "z", "i", "p">>,
      <<"s", "e", "t", "u", "p", ".", "e", "x", "e">>,
      <<"p", "o", "r", "t", "a", "b", "l", "e", "-", "x", "6", "4", ".", "7", "z">>,
      <<"p", "o", "r", "t", "a", "b", "l", "e", "-", "w", "i", "n", "d", "o", "w", "s", ".", "7", "z">> }

\* The longest asset list of a release index.
MaxAssets == 2

\* The largest content-length a download declares, the most a download
\* delivers, and the longest chunk iter_content yields (in units of bytes).
MaxTotal == 3

MaxRecv == 5

MaxChunk == 2

Asset(n) == [name |-> n, url |-> <<"/">> \o n]

AssetLists(k) == UNION { [1..j -> { Asset(n) : n \in AssetNameSamples }] : j \in 0..k }

\* The asset lists an install run is given: none, one that only the
\* fallback tier matches, and one the first tier matches after a distractor.
IndexAssetLists ==
    { <<>>,
      <<Asset(<<"s", "e", "t", "u", "p", ".", "e", "x", "e">>), Asset(<<"P", "O", "R", "T", "A", "B", "L", "E", ".", "Z", "I", "P">>), Asset(<<"w", "i", "n", "d", "o", "w", "s", ".", "z", "i", "p">>)>>,
      <<Asset(<<"s", "e", "t", "u", "p", ".", "e", "x", "e">>), Asset(<<"P", "o", "r", "t", "a", "b", "l", "e", "-", "x", "6", "4", ".", "z", "i", "p">>), Asset(<<"W", "i", "n", "d", "o", "w", "s", "-", "P", "o", "r", "t", "a", "b", "l", "e", ".", "Z", "I", "P">>)>> }

\* The statuses of the release index's response.
IndexStatuses == {200, 404, 500}

HeaderAbsent == [kind |-> "absent", n |-> 0]

HeaderText == [kind |-> "text", n |-> 0]

HeaderInt(n) == [kind |-> "int", n |-> n]

\* r.headers.get('content-length'): missing, a number, or not a number.
Headers == {HeaderAbsent, HeaderText} \cup { HeaderInt(n) : n \in 0..MaxTotal }

Tools == {"moonlight", "sunshine"}

\* The steps of install(), in order.
AllSteps == {"cb_check", "query", "select", "cb_download", "mkdir", "open", "stream",
             "cb_extract", "extract", "cb_done"}

\* An error message, with the status code it carries (0: none).
Msg(text) == <<text, 0>>

NoResult == [success |-> FALSE, res |-> None]

\* A mutant of InTry: the first progress callback is made before the try.
InTryAfterFirstCallback(step) == step # "cb_check"

\* try: ... except Exception as e: the whole body of install() is inside.
InTry(step) == step \in AllSteps

\* An exception raised at step: caught, logged and returned as (False, str(e)).
Raise(step, msg) ==
    IF InTry(step)
    THEN /\ result' = [success |-> FALSE, res |-> Some(msg)]
         /\ ipc' = "returned"
         /\ escaped' = escaped
    ELSE /\ escaped' = TRUE
         /\ ipc' = "escaped"
         /\ result' = result

ProgressSignal(pct) == [kind |-> "progress", pct |-> pct, success |-> FALSE, res |-> None]

FinishedSignal(r) == [kind |-> "finished", pct |-> 0, success |-> r.success, res |-> r.res]

\* A callback made by the worker thread: a Qt signal queued to the UI thread
\* (InstallWorker), or a direct call (start_install_thread).
Emit(sigs) ==
    IF via = "worker"
    THEN queue' = queue \o sigs /\ delivered' = delivered
    ELSE delivered' = delivered \o sigs /\ queue' = queue

\* if progress_callback: progress_callback(text, pct), which returns or
\* raises; the step is complete when install() moves on to the next.
Progress(step, pct, next) ==
    /\ events' = Append(events, pct)
    /\ \/ /\ Emit(<<ProgressSignal(pct)>>)
          /\ ipc' = next
          /\ done' = (IF next = ipc THEN done ELSE done \cup {step})
          /\ UNCHANGED <<result, escaped>>
       \/ /\ Raise(step, Msg("callback error"))
          /\ UNCHANGED <<queue, delivered, done>>

\* A step that raises.
Fails(step, msg) ==
    /\ Raise(step, msg)
    /\ UNCHANGED <<events, queue, delivered, done>>

InstallIdle ==
    /\ tool = "none" /\ via = "none" /\ ipc = "idle" /\ assets = <<>> /\ url = None
    /\ header = HeaderAbsent /\ dl = 0 /\ events = <<>> /\ done = {} /\ result = NoResult
    /\ escaped = FALSE /\ dirExists = FALSE /\ zipExists = FALSE /\ exe = None
    /\ wpc = "idle" /\ queue = <<>> /\ delivered = <<>>

\* install_sunshine / install_moonlight, or start_install_thread: a run starts.
InstallInit ==
    /\ tool \in Tools /\ via \in {"worker", "thread"}
    /\ ipc = "cb_check" /\ assets = <<>> /\ url = None
    /\ header = HeaderAbsent /\ dl = 0 /\ events = <<>> /\ done = {} /\ result = NoResult
    /\ escaped = FALSE /\ dirExists \in BOOLEAN /\ zipExists = FALSE /\ exe = None
    /\ wpc = "running" /\ queue = <<>> /\ delivered = <<>>

\* progress_callback("Checking ... release...", 10)
CbCheck ==
    /\ ipc = "cb_check"
    /\ Progress("cb_check", 10, "query")
    /\ UNCHANGED <<tool, via, assets, url, header, dl, dirExists, zipExists, exe, wpc>>
    /\ UNCHANGED notInstall

\* requests.get(GITHUB_API_URL), the status test, resp.json() and data.get("assets")
QueryIndex ==
    /\ ipc = "query"
    /\ \/ Fails("query", Msg("connection error")) /\ UNCHANGED assets
       \/ \E st \in IndexStatuses \ {200} :
            Fails("query", <<"GitHub API Failed: ", st>>) /\ UNCHANGED assets
       \/ Fails("query", Msg("invalid JSON")) /\ UNCHANGED assets
       \/ /\ assets' \in IndexAssetLists
          /\ ipc' = "select"
          /\ done' = done \cup {"query"}
          /\ UNCHANGED <<result, escaped, events, queue, delivered>>
    /\ UNCHANGED <<tool, via, url, header, dl, dirExists, zipExists, exe, wpc>>
    /\ UNCHANGED notInstall

\* The two search loops and "if not download_url: raise".
Select ==
    /\ ipc = "select"
    /\ LET sel == SelectAsset(tool, assets) IN
        \/ /\ sel.ok
           /\ url' = sel
           /\ ipc' = "cb_download"
           /\ done' = done \cup {"select"}
           /\ UNCHANGED <<result, escaped, events, queue, delivered>>
        \/ /\ ~sel.ok
           /\ Fails("select", Msg(NoSuitableMessage(tool)))
           /\ UNCHANGED url
    /\ UNCHANGED <<tool, via, assets, header, dl, dirExists, zipExists, exe, wpc>>
    /\ UNCHANGED notInstall

\* progress_callback("Downloading...", 30)
CbDownload ==
    /\ ipc = "cb_download"
    /\ Progress("cb_download", 30, "mkdir")
    /\ UNCHANGED <<tool, via, assets, url, header, dl, dirExists, zipExists, exe, wpc>>
    /\ UNCHANGED notInstall

\* A mutant of MakeDir: the target directory is made before the index is
\* queried.
MakeDirFirst ==
    /\ ipc = "query"
    /\ dirExists' = TRUE
    /\ UNCHANGED <<ipc, done, result, escaped, events, queue, delivered>>
    /\ UNCHANGED <<tool, via, assets, url, header, dl, zipExists, exe, wpc>>
    /\ UNCHANGED notInstall

\* if not os.path.exists(target_dir): os.makedirs(target_dir)
MakeDir ==
    /\ ipc = "mkdir"
    /\ \/ /\ dirExists' = TRUE
          /\ ipc' = "open"
          /\ done' = done \cup {"mkdir"}
          /\ UNCHANGED <<result, escaped, events, queue, delivered>>
       \/ /\ ~dirExists
          /\ Fails("mkdir", Msg("cannot create directory"))
          /\ UNCHANGED dirExists
    /\ UNCHANGED <<tool, via, assets, url, header, dl, zipExists, exe, wpc>>
    /\ UNCHANGED notInstall

\* requests.get(download_url, stream=True), raise_for_status(), the
\* content-length header, dl = 0 and open(local_zip, 'wb')
OpenDownload ==
    /\ ipc = "open"
    /\ \/ Fails("open", Msg("connection error")) /\ UNCHANGED <<header, zipExists>>
       \/ Fails("open", Msg("HTTP error")) /\ UNCHANGED <<header, zipExists>>
       \/ /\ header' \in Headers
          /\ \/ Fails("open", Msg("cannot open archive")) /\ UNCHANGED zipExists
             \/ /\ zipExists' = TRUE
                /\ ipc' = "stream"
                /\ done' = done \cup {"open"}
                /\ UNCHANGED <<result, escaped, events, queue, delivered>>
    /\ dl' = 0
    /\ UNCHANGED <<tool, via, assets, url, dirExists, exe, wpc>>
    /\ UNCHANGED notInstall

\* One pass of "for chunk in r.iter_content(chunk_size=8192)" with a chunk
\* that is not empty: dl += len(chunk), f.write(chunk), and the progress
\* callback when the header is set. int(total_length) raises on a header
\* that is no number, and the division on a declared length of zero.
Chunk ==
    /\ ipc = "stream"
    /\ \E n \in 1..MaxChunk :
        /\ dl + n <= MaxRecv
        /\ dl' = dl + n
        /\ \/ Fails("stream", Msg("write error"))
           \/ /\ header.kind = "absent"
              /\ UNCHANGED <<ipc, result, escaped, events, queue, delivered, done>>
           \/ /\ header.kind = "text"
              /\ Fails("stream", Msg("invalid literal for int()"))
           \/ /\ header.kind = "int" /\ header.n = 0
              /\ Fails("stream", Msg("division by zero"))
           \/ /\ header.kind = "int" /\ header.n > 0
              /\ Progress("stream", DownloadPercent(dl + n, header.n), "stream")
    /\ UNCHANGED <<tool, via, assets, url, header, dirExists, zipExists, exe, wpc>>
    /\ UNCHANGED notInstall

\* The stream breaks (iter_content raises), or it ends and the loop is left.
EndOfStream ==
    /\ ipc = "stream"
    /\ \/ Fails("stream", Msg("connection broken"))
       \/ /\ ipc' = "cb_extract"
          /\ done' = done \cup {"stream"}
          /\ UNCHANGED <<result, escaped, events, queue, delivered>>
    /\ UNCHANGED <<tool, via, assets, url, header, dl, dirExists, zipExists, exe, wpc>>
    /\ UNCHANGED notInstall

\* progress_callback("Extracting...", 80)
CbExtract ==
    /\ ipc = "cb_extract"
    /\ Progress("cb_extract", 80, "extract")
    /\ UNCHANGED <<tool, via, assets, url, header, dl, dirExists, zipExists, exe, wpc>>
    /\ UNCHANGED notInstall

\* zipfile.ZipFile(local_zip).extractall(target_dir); os.remove(local_zip),
\* whose failure is ignored; the os.walk search for the executable, which
\* finds it or leaves exe_path None.
Extract ==
    /\ ipc = "extract"
    /\ \/ /\ Fails("extract", Msg("bad zip file"))
          /\ UNCHANGED <<zipExists, exe>>
       \/ /\ zipExists' \in {FALSE, zipExists}
          /\ exe' \in {None, Some(<<"exe", 0>>)}
          /\ ipc' = "cb_done"
          /\ done' = done \cup {"extract"}
          /\ UNCHANGED <<result, escaped, events, queue, delivered>>
    /\ UNCHANGED <<tool, via, assets, url, header, dl, dirExists, wpc>>
    /\ UNCHANGED notInstall

\* A mutant of Installed: a search that found nothing is returned as a failure.
InstalledIfFound(found) ==
    IF found.ok THEN [success |-> TRUE, res |-> found]
    ELSE [success |-> FALSE, res |-> Some(Msg("executable not found"))]

\* return True, exe_path
Installed(found) == [success |-> TRUE, res |-> found]

\* progress_callback("Done!", 100); return True, exe_path
CbDone ==
    /\ ipc = "cb_done"
    /\ events' = Append(events, 100)
    /\ \/ /\ Emit(<<ProgressSignal(100)>>)
          /\ result' = Installed(exe)
          /\ ipc' = "returned"
          /\ done' = done \cup {"cb_done"}
          /\ UNCHANGED escaped
       \/ /\ Raise("cb_done", Msg("callback error"))
          /\ UNCHANGED <<queue, delivered, done>>
    /\ UNCHANGED <<tool, via, assets, url, header, dl, dirExists, zipExists, exe, wpc>>
    /\ UNCHANGED notInstall

\* A mutant of Completion: the terminal callback is made on success only.
CompletionOnSuccess(r) == IF r.success THEN <<FinishedSignal(r)>> ELSE <<>>

\* InstallWorker.run: self.finished.emit(success, res); _run of
\* start_install_thread: on_complete(True, res) or on_complete(False, res).
Completion(r) == <<FinishedSignal(r)>>

\* install() has returned: the worker makes the terminal callback.
Complete ==
    /\ ipc = "returned" /\ wpc = "running"
    /\ Emit(Completion(result))
    /\ wpc' = "finished"
    /\ UNCHANGED <<tool, via, ipc, assets, url, header, dl, events, done, result, escaped,
                   dirExists, zipExists, exe>>
    /\ UNCHANGED notInstall

\* The UI thread's event loop runs the slot of the oldest queued signal.
Deliver ==
    /\ via = "worker" /\ queue # <<>>
    /\ delivered' = Append(delivered, Head(queue))
    /\ queue' = Tail(queue)
    /\ UNCHANGED <<tool, via, ipc, assets, url, header, dl, events, done, result, escaped,
                   dirExists, zipExists, exe, wpc>>
    /\ UNCHANGED notInstall

InstallNext ==
    \/ CbCheck \/ QueryIndex \/ Select \/ CbDownload \/ MakeDir \/ OpenDownload
    \/ Chunk \/ EndOfStream \/ CbExtract \/ Extract \/ CbDone \/ Complete \/ Deliver

InstallStart == InstallInit /\ CodecIdle /\ ResolveIdle /\ PinIdle /\ ConfigIdle /\ CredsIdle /\ LocalIpIdle /\ StreamIdle /\ StatusIdle /\ SettingsIdle /\ HandlersIdle

SpecInstall == InstallStart /\ [][InstallNext]_vars

\* The asset search alone, from install() having fetched any index.
SelectInit ==
    /\ tool \in Tools /\ via \in {"worker", "thread"}
    /\ ipc = "select" /\ assets \in AssetLists(MaxAssets) /\ url = None
    /\ header = HeaderAbsent /\ dl = 0 /\ events = <<10>> /\ done = {"cb_check", "query"}
    /\ result = NoResult /\ escaped = FALSE /\ dirExists = FALSE /\ zipExists = FALSE
    /\ exe = None /\ wpc = "running"
    /\ queue = (IF via = "worker" THEN <<ProgressSignal(10)>> ELSE <<>>)
    /\ delivered = (IF via = "worker" THEN <<>> ELSE <<ProgressSignal(10)>>)

SelectNext == Select

SelectStart == SelectInit /\ CodecIdle /\ ResolveIdle /\ PinIdle /\ ConfigIdle /\ CredsIdle /\ LocalIpIdle /\ StreamIdle /\ StatusIdle /\ SettingsIdle /\ HandlersIdle

SpecSelect == SelectStart /\ [][SelectNext]_vars

(***************************************************************************)
(* The codec's inputs: address literals, and typed strings.                *)
(***************************************************************************)

\* The longest group list beside the "::" of a compressed IPv6 literal.
MaxV6Groups == 2

\* The longest typed string handed to decode_connection_code.
MaxCodeLen == 5

\* str(n) of a natural number.
RECURSIVE DecStr(_)
DecStr(n) == IF n < 10 THEN <<48 + n>> ELSE DecStr(n \div 10) \o <<48 + (n % 10)>>

OctetSamples == {0, 7, 10, 192, 255}

\* "a.b.c.d"
IPv4Literals ==
    { DecStr(a) \o <<46>> \o DecStr(b) \o <<46>> \o DecStr(c) \o <<46>> \o DecStr(d) :
        a \in OctetSamples, b \in OctetSamples, c \in OctetSamples, d \in OctetSamples }

\* "0", "1", "ab", "fe80", "FFFF"
HexGroupSamples == { <<48>>, <<49>>, <<97, 98>>, <<102, 101, 56, 48>>, <<70, 70, 70, 70>> }

\* The groups of gs joined by ":".
RECURSIVE JoinColon(_)
JoinColon(gs) ==
    IF gs = <<>> THEN <<>>
    ELSE IF Len(gs) = 1 THEN gs[1]
    ELSE gs[1] \o <<58>> \o JoinColon(Tail(gs))

GroupLists(n) == UNION { [1..k -> HexGroupSamples] : k \in 0..n }

\* Compressed literals head::tail, and the full form of eight groups.
IPv6Literals ==
    { JoinColon(h) \o <<58, 58>> \o JoinColon(t) :
        <<h, t>> \in { p \in GroupLists(MaxV6Groups) \X GroupLists(MaxV6Groups) :
                         Len(p[1]) + Len(p[2]) <= MaxV6Groups } }
    \cup { JoinColon([i \in 1..8 |-> IF i = 1 THEN g ELSE h]) :
             g \in HexGroupSamples, h \in HexGroupSamples }

IpLiterals == IPv4Literals \cup IPv6Literals

\* "Q", "w", "!", "=", " ", and U+00E9
RawAlphabet == {81, 119, 33, 61, 32, 233}

\* A typed string: the alphabet's strings, with or without the "GSP-" tag.
RawCodes ==
    LET bodies == UNION { [1..k -> RawAlphabet] : k \in 0..MaxCodeLen } IN
    bodies \cup { Prefix \o b : b \in bodies }

CodecInit ==
    /\ \/ ckind = "ip" /\ cinput \in IpLiterals
       \/ ckind = "raw" /\ cinput \in RawCodes
    /\ ccode = <<>>
    /\ cresult = None
    /\ cpc = "start"

\* HostScreen._build_ui: code = encode_connection_code(ip)
Encode ==
    /\ cpc = "start" /\ ckind = "ip"
    /\ ccode' = encode_connection_code(cinput)
    /\ cpc' = "encoded"
    /\ UNCHANGED <<ckind, cinput, cresult>>
    /\ UNCHANGED notCodec

\* decode_connection_code of the code just made
DecodeEncoded ==
    /\ cpc = "encoded"
    /\ cresult' = decode_connection_code(ccode)
    /\ cpc' = "decoded"
    /\ UNCHANGED <<ckind, cinput, ccode>>
    /\ UNCHANGED notCodec

\* ClientScreen.start_stream: decode_connection_code of what the user typed
DecodeTyped ==
    /\ cpc = "start" /\ ckind = "raw"
    /\ ccode' = cinput
    /\ cresult' = decode_connection_code(cinput)
    /\ cpc' = "decoded"
    /\ UNCHANGED <<ckind, cinput>>
    /\ UNCHANGED notCodec

CodecNext == Encode \/ DecodeEncoded \/ DecodeTyped

CodecStart == CodecInit /\ InstallIdle /\ ResolveIdle /\ PinIdle /\ ConfigIdle /\ CredsIdle /\ LocalIpIdle /\ StreamIdle /\ StatusIdle /\ SettingsIdle /\ HandlersIdle

SpecCodec == CodecStart /\ [][CodecNext]_vars

(***************************************************************************)
(* sunshine.py: SunshineManager.set_custom_path, _find_executable and      *)
(* start_service; moonlight.py: MoonlightRunner.__init__, _find_moonlight. *)
(***************************************************************************)
SYSTEM_PATHS ==
    << "C:\\Program Files\\Sunshine\\sunshine.exe",
       "C:\\Program Files (x86)\\Sunshine\\sunshine.exe",
       "C:\\Sunshine\\sunshine.exe" >>

\* os.path.expanduser has put the home directory in place of "~".
DEFAULT_PATHS ==
    << "C:\\Program Files\\Moonlight Game Streaming\\Moonlight.exe",
       "C:\\Program Files (x86)\\Moonlight Game Streaming\\Moonlight.exe",
       "C:\\Users\\me\\AppData\\Local\\Moonlight Game Streaming\\Moonlight.exe" >>

\* Paths a user picks in the file dialog, or an installer returns.
UserPaths == {"D:\\Games\\Sunshine\\sunshine.exe", "D:\\Games\\Moonlight\\Moonlight.exe"}

AllPaths ==
    UserPaths \cup {SYSTEM_PATHS[i] : i \in 1..Len(SYSTEM_PATHS)}
              \cup {DEFAULT_PATHS[i] : i \in 1..Len(DEFAULT_PATHS)}

\* The path arguments: None, "", a picked path, a well-known path.
PathArgs ==
    {NoPath, PathOf("")} \cup {PathOf(p) : p \in UserPaths}
        \cup {PathOf(SYSTEM_PATHS[3]), PathOf(DEFAULT_PATHS[3])}

\* Python's truth value of a str | None.
Truthy(x) == x.some /\ x.path # ""

\* a or b
Or(a, b) == IF Truthy(a) THEN a ELSE b

\* os.path.exists(x)
Exists(x) == x.some /\ x.path \in fs

\* for path in paths: if os.path.exists(path): return path; then return None
FirstExisting(paths) ==
    LET found == {i \in 1..Len(paths) : paths[i] \in fs} IN
    IF found = {} THEN NoPath
    ELSE PathOf(paths[CHOOSE i \in found : \A j \in found : i <= j])

_find_executable ==
    IF Truthy(custom_path) /\ Exists(custom_path) THEN custom_path
    ELSE FirstExisting(SYSTEM_PATHS)

_find_moonlight == FirstExisting(DEFAULT_PATHS)

\* subprocess.Popen(cmd, shell=...), which starts the process or raises.
Popen(cmd, shell, threw) == [attempted |-> TRUE, cmd |-> cmd, shell |-> shell, threw |-> threw]

ResolveInit ==
    /\ fs = {} /\ custom_path = NoPath /\ rop = "none" /\ rarg = NoPath
    /\ rpath = NoPath /\ rret = NoReturn
    /\ exe_path = NoPath /\ largs = NoArgs /\ spawn = NoSpawn

\* A file appears on disk (an install, a copy).
FileCreated ==
    /\ \E p \in AllPaths \ fs : fs' = fs \cup {p}
    /\ UNCHANGED <<custom_path, rop, rarg, rpath, rret, exe_path, largs, spawn>>
    /\ UNCHANGED notResolve

\* A file leaves the disk (an uninstall, a move).
FileRemoved ==
    /\ \E p \in fs : fs' = fs \ {p}
    /\ UNCHANGED <<custom_path, rop, rarg, rpath, rret, exe_path, largs, spawn>>
    /\ UNCHANGED notResolve

\* A mutant of set_custom_path: the path is stored without the checks.
set_custom_path_unchecked ==
    /\ \E path \in PathArgs :
        /\ rarg' = path
        /\ custom_path' = path
    /\ rop' = "set_custom_path" /\ rpath' = NoPath /\ rret' = NoReturn
    /\ spawn' = NoSpawn /\ largs' = NoArgs
    /\ UNCHANGED <<fs, exe_path>>
    /\ UNCHANGED notResolve

\* SunshineManager.set_custom_path(path)
set_custom_path ==
    /\ \E path \in PathArgs :
        /\ rarg' = path
        /\ custom_path' = (IF Truthy(path) /\ Exists(path) THEN path ELSE custom_path)
    /\ rop' = "set_custom_path" /\ rpath' = NoPath /\ rret' = NoReturn
    /\ spawn' = NoSpawn /\ largs' = NoArgs
    /\ UNCHANGED <<fs, exe_path>>
    /\ UNCHANGED notResolve

\* SunshineManager._find_executable(), as initialize_credentials calls it
FindExecutable ==
    /\ rop' = "find" /\ rarg' = NoPath
    /\ rpath' = _find_executable
    /\ rret' = NoReturn
    /\ spawn' = NoSpawn /\ largs' = NoArgs
    /\ UNCHANGED <<fs, custom_path, exe_path>>
    /\ UNCHANGED notResolve

\* SunshineManager.start_service(explicit_path): what it does to the manager
\* and the process table.
StartService(explicit_path) ==
    LET path == Or(explicit_path, _find_executable) IN
    /\ rarg' = explicit_path
    /\ rpath' = path
    /\ IF ~Truthy(path)
       THEN rret' = Return(FALSE, "Sunshine.exe not found.") /\ spawn' = NoSpawn
       ELSE \/ /\ spawn' = Popen(<<path.path>>, TRUE, FALSE)
               /\ rret' = Return(TRUE, "Service Started")
            \/ /\ spawn' = Popen(<<path.path>>, TRUE, TRUE)
               /\ rret' = Return(FALSE, "OSError")
    /\ rop' = "start" /\ largs' = NoArgs
    /\ UNCHANGED <<fs, custom_path, exe_path>>

\* A call of start_service.
start_service ==
    /\ \E explicit_path \in PathArgs : StartService(explicit_path)
    /\ UNCHANGED notResolve

\* MoonlightRunner(exe_path): self.exe_path
MoonlightRunner ==
    /\ \E arg \in PathArgs :
        /\ rarg' = arg
        /\ rpath' = Or(arg, _find_moonlight)
        /\ exe_path' = Or(arg, _find_moonlight)
    /\ rop' = "runner" /\ rret' = NoReturn
    /\ spawn' = NoSpawn /\ largs' = NoArgs
    /\ UNCHANGED <<fs, custom_path>>
    /\ UNCHANGED notResolve

ResolveNext ==
    \/ FileCreated \/ FileRemoved \/ set_custom_path \/ FindExecutable
    \/ start_service \/ MoonlightRunner

ResolveStart == ResolveInit /\ CodecIdle /\ InstallIdle /\ PinIdle /\ ConfigIdle /\ CredsIdle /\ LocalIpIdle /\ StreamIdle /\ StatusIdle /\ SettingsIdle /\ HandlersIdle

SpecResolve == ResolveStart /\ [][ResolveNext]_vars

(***************************************************************************)
(* moonlight.py: MoonlightRunner.launch and open_gui.                      *)
(***************************************************************************)
Hosts == {"192.168.1.5", "host-pc"}

Resolutions == {<<1920, 1080>>, <<1280, 720>>}

FpsValues == {60, 30}

Bitrates == {20000}

AppNames == {"Desktop"}

LaunchArgs ==
    {[host |-> h, width |-> r[1], height |-> r[2], fps |-> f, bitrate |-> b, vsync |-> v,
      app |-> a] :
        h \in Hosts, r \in Resolutions, f \in FpsValues, b \in Bitrates, v \in BOOLEAN,
        a \in AppNames}

\* if not self.exe_path or not os.path.exists(self.exe_path)
ExeMissing == ~Truthy(exe_path) \/ ~Exists(exe_path)

\* A mutant of LaunchCmd: "--vsync" is appended whatever the flag.
LaunchCmdAlwaysVsync(a) ==
    << exe_path.path, "stream", a.host, a.app,
       "--resolution", ToString(a.width) \o "x" \o ToString(a.height),
       "--fps", ToString(a.fps),
       "--bitrate", ToString(a.bitrate),
       "--quit-after", "--vsync" >>

\* The cmd list of launch: the fixed arguments, then the vsync flag.
LaunchCmd(a) ==
    << exe_path.path, "stream", a.host, a.app,
       "--resolution", ToString(a.width) \o "x" \o ToString(a.height),
       "--fps", ToString(a.fps),
       "--bitrate", ToString(a.bitrate),
       "--quit-after" >>
        \o (IF a.vsync THEN <<"--vsync">> ELSE <<"--no-vsync">>)

\* MoonlightRunner.launch(host_ip, width, height, fps, bitrate, vsync, app_name)
\* with the arguments a: what it does to the runner and the process table.
Launch(a) ==
    /\ largs' = a
    /\ IF ExeMissing
       THEN /\ rret' = Return(FALSE, "Moonlight.exe not found. Please set path.")
            /\ spawn' = NoSpawn
       ELSE \/ /\ spawn' = Popen(LaunchCmd(a), FALSE, FALSE)
               /\ rret' = Return(TRUE, "Moonlight Launched")
            \/ /\ spawn' = Popen(LaunchCmd(a), FALSE, TRUE)
               /\ rret' = Return(FALSE, "OSError")
    /\ rop' = "launch" /\ rarg' = NoPath /\ rpath' = NoPath
    /\ UNCHANGED <<fs, custom_path, exe_path>>

\* A call of launch from outside the window.
launch ==
    /\ \E a \in LaunchArgs : Launch(a)
    /\ UNCHANGED notResolve

\* MoonlightRunner.open_gui()
open_gui ==
    /\ IF ExeMissing
       THEN rret' = Return(FALSE, "Moonlight.exe not found.") /\ spawn' = NoSpawn
       ELSE \/ /\ spawn' = Popen(<<exe_path.path>>, FALSE, FALSE)
               /\ rret' = Return(TRUE, "Moonlight GUI Opened")
            \/ /\ spawn' = Popen(<<exe_path.path>>, FALSE, TRUE)
               /\ rret' = Return(FALSE, "OSError")
    /\ rop' = "open_gui" /\ rarg' = NoPath /\ rpath' = NoPath /\ largs' = NoArgs
    /\ UNCHANGED <<fs, custom_path, exe_path>>
    /\ UNCHANGED notResolve

LaunchNext ==
    \/ FileCreated \/ FileRemoved \/ MoonlightRunner \/ launch \/ open_gui \/ start_service

LaunchStart == ResolveInit /\ CodecIdle /\ InstallIdle /\ PinIdle /\ ConfigIdle /\ CredsIdle /\ LocalIpIdle /\ StreamIdle /\ StatusIdle /\ SettingsIdle /\ HandlersIdle

SpecLaunch == LaunchStart /\ [][LaunchNext]_vars

(***************************************************************************)
(* sunshine.py: SunshineAPI.__init__, update_auth and send_pin.            *)
(***************************************************************************)
Usernames == {"", "admin"}

Passwords == {"", "secret"}

\* The pin argument: the text of the PIN field, or a number.
StrPin(t) == [isInt |-> FALSE, n |-> 0, s |-> t]

IntPin(k) == [isInt |-> TRUE, n |-> k, s |-> ""]

Pins == {StrPin(""), StrPin("1234"), IntPin(42)}

\* str(pin)
PyStr(pin) == IF pin.isInt THEN ToString(pin.n) ELSE pin.s

\* requests.post returned a response.
Response(status, text) ==
    [kind |-> "response", status |-> status, text |-> text, cls |-> "", msg |-> ""]

\* requests.post raised cls(msg).
Raised(cls, msg) == [kind |-> "raise", status |-> 0, text |-> "", cls |-> cls, msg |-> msg]

StatusCodes == {200, 204, 400, 401, 403, 500}

Bodies == {"", "Bad Request"}

\* requests.exceptions.ConnectionError and its subclasses
ConnectionErrors == {"ConnectionError", "ConnectTimeout", "SSLError", "ProxyError"}

\* Exceptions of other classes, all derived from Exception
OtherErrors == {"ReadTimeout", "TooManyRedirects", "TypeError"}

ErrorMessages == {"", "Read timed out."}

Outcomes ==
    {Response(st, b) : st \in StatusCodes, b \in Bodies}
        \cup {Raised(c, m) : c \in ConnectionErrors \cup OtherErrors, m \in ErrorMessages}

\* self.auth = (username, password) if username and password else None
InitAuth(username, password) ==
    IF username # "" /\ password # "" THEN <<username, password>> ELSE <<>>

\* A mutant of StatusResult: 401 is lumped in with the other statuses.
StatusResultLumped(status, text) ==
    IF status = 200 THEN Return(TRUE, "PIN accepted by Sunshine.")
    ELSE Return(FALSE, "Error " \o ToString(status) \o ": " \o text)

\* The if / elif / else on resp.status_code
StatusResult(status, text) ==
    IF status = 200 THEN Return(TRUE, "PIN accepted by Sunshine.")
    ELSE IF status = 401
        THEN Return(FALSE, "Authentication Failed (check Sunshine username/password).")
    ELSE Return(FALSE, "Error " \o ToString(status) \o ": " \o text)

\* The except clauses, in order
ExceptResult(cls, msg) ==
    IF cls \in ConnectionErrors THEN Return(FALSE, "Sunshine is not running or not reachable.")
    ELSE Return(FALSE, msg)

PinInit ==
    /\ \E username \in Usernames, password \in Passwords :
        auth = InitAuth(username, password)
    /\ pcall = "init" /\ preq = NoRequest /\ poutcome = NoOutcome /\ pret = NoReturn

\* SunshineAPI.update_auth(username, password): what it does to the API object.
\* A mutant of update_auth: credentials already held are kept.
UpdateAuthOnce(username, password) ==
    /\ auth' = (IF auth = <<>> THEN <<username, password>> ELSE auth)
    /\ pcall' = "update_auth"
    /\ preq' = NoRequest /\ poutcome' = NoOutcome /\ pret' = NoReturn

UpdateAuth(username, password) ==
    /\ auth' = <<username, password>>
    /\ pcall' = "update_auth"
    /\ preq' = NoRequest /\ poutcome' = NoOutcome /\ pret' = NoReturn

\* A call of update_auth.
update_auth ==
    /\ \E username \in Usernames, password \in Passwords : UpdateAuth(username, password)
    /\ UNCHANGED notPin

\* SunshineAPI.send_pin(pin), requests.post doing o.
SendPin(pin, o) ==
    /\ preq' = [sent |-> TRUE, pin |-> PyStr(pin), auth |-> auth]
    /\ poutcome' = o
    /\ pret' = (IF o.kind = "response" THEN StatusResult(o.status, o.text)
                ELSE ExceptResult(o.cls, o.msg))
    /\ pcall' = "send_pin"
    /\ UNCHANGED auth

\* A call of send_pin.
send_pin ==
    /\ \E pin \in Pins, o \in Outcomes : SendPin(pin, o)
    /\ UNCHANGED notPin

PinNext == update_auth \/ send_pin

PinStart == PinInit /\ CodecIdle /\ InstallIdle /\ ResolveIdle /\ ConfigIdle /\ CredsIdle /\ LocalIpIdle /\ StreamIdle /\ StatusIdle /\ SettingsIdle /\ HandlersIdle

SpecPin == PinStart /\ [][PinNext]_vars

(***************************************************************************)
(* sunshine.py: SunshineManager.initialize_credentials. A message or a log *)
(* line is the sequence of the pieces it is formatted from. The twin run   *)
(* is the same call in the same surroundings with another password.        *)
(***************************************************************************)
Secrets == {"", "secret", "hunter2"}

\* "", "err", "err\n", "\n", " bad creds"
StderrSamples ==
    {<<>>, <<101, 114, 114>>, <<101, 114, 114, 10>>, <<10>>,
     <<32, 98, 97, 100, 32, 99, 114, 101, 100, 115>>}

\* subprocess.run returned a CompletedProcess.
Exited(returncode, stderr) ==
    [kind |-> "exit", returncode |-> returncode, stderr |-> stderr, msg |-> ""]

\* subprocess.run raised.
RunRaised(msg) == [kind |-> "raise", returncode |-> 0, stderr |-> <<>>, msg |-> msg]

ProcOutcomes ==
    {Exited(rc, err) : rc \in {0, 1}, err \in StderrSamples}
        \cup {RunRaised("[WinError 5] Access is denied")}

\* logger.info / logger.warning / logger.error
LogLine(level, pieces) == [level |-> level, pieces |-> pieces]

\* " ".join(parts)
RECURSIVE JoinSpace(_)
JoinSpace(parts) ==
    IF Len(parts) <= 1 THEN [i \in 1..Len(parts) |-> Str(parts[i])]
    ELSE <<Str(Head(parts)), Str(" ")>> \o JoinSpace(Tail(parts))

\* What _find_executable logs.
FindLog ==
    IF Truthy(custom_path) /\ Exists(custom_path) THEN <<>>
    ELSE IF FirstExisting(SYSTEM_PATHS).some
        THEN <<LogLine("info", <<Str("Found Sunshine at: "),
                                 Str(FirstExisting(SYSTEM_PATHS).path)>>)>>
    ELSE <<LogLine("warning", <<Str("Sunshine executable not found in known locations.")>>)>>

\* A mutant of SafeCmd: the command is logged as it is run.
SafeCmdUnredacted(found, username, password) ==
    JoinSpace(<<found, "--creds", username, password>>)

\* safe_cmd_repr
SafeCmd(found, username, password) == JoinSpace(<<found, "--creds", username, "********">>)

\* A mutant of FailureMessage: the generic message whatever was captured.
FailureMessageGeneric(stderr) == Str("Failed to set credentials.")

\* msg = proc.stderr.strip() or "Failed to set credentials."
FailureMessage(stderr) ==
    IF Strip(stderr) # <<>> THEN Txt(Strip(stderr)) ELSE Str("Failed to set credentials.")

\* A finished call: exe as found, the return value, the command run if any,
\* and what was logged.
Returned(ok, msg, cmd, log) ==
    [called |-> TRUE, exe |-> _find_executable, ok |-> ok, msg |-> msg, cmd |-> cmd,
     log |-> log]

\* initialize_credentials(username, password), subprocess.run doing o.
CredsRun(username, password, o) ==
    LET found == _find_executable IN
    IF ~Truthy(found)
    THEN Returned(FALSE, <<Str("Sunshine.exe not found. Configure its path in Settings.")>>,
                  <<>>, FindLog)
    ELSE IF username = "" \/ password = ""
    THEN Returned(FALSE, <<Str("Username and password are required.")>>, <<>>, FindLog)
    ELSE LET cmd == <<found.path, "--creds", username, password>>
             started ==
                 FindLog \o
                 <<LogLine("info", <<Str("Initializing Sunshine credentials via: ")>>
                                    \o SafeCmd(found.path, username, password))>>
         IN
         IF o.kind = "raise"
         THEN Returned(FALSE, <<Str(o.msg)>>, cmd,
                       started \o <<LogLine("error", <<Str("Error running Sunshine --creds: "),
                                                      Str(o.msg)>>)>>)
         ELSE IF o.returncode # 0
         THEN Returned(FALSE, <<FailureMessage(o.stderr)>>, cmd,
                       started \o <<LogLine("error", <<Str("Sunshine --creds failed (code "),
                                                      Str(ToString(o.returncode)),
                                                      Str("): "), Txt(o.stderr)>>)>>)
         ELSE Returned(TRUE, <<Str("Credentials initialized.")>>, cmd,
                       started \o <<LogLine("info",
                           <<Str("Sunshine credentials initialized successfully.")>>)>>)

\* SunshineManager.initialize_credentials(username, password), subprocess.run
\* doing o, beside its twin run with the password twin.
InitializeCredentials(username, password, twin, o) ==
    /\ cargs' = [username |-> username, password |-> password, twin |-> twin]
    /\ crun' = CredsRun(username, password, o)
    /\ ctwin' = CredsRun(username, twin, o)
    /\ coutcome' = (IF crun'.cmd # <<>> \/ ctwin'.cmd # <<>> THEN o ELSE NoProc)

\* A call of initialize_credentials.
initialize_credentials ==
    /\ \E username \in Usernames, password \in Secrets, o \in ProcOutcomes :
        \E twin \in Secrets \ {password} : InitializeCredentials(username, password, twin, o)
    /\ UNCHANGED notCreds

CredsNext == initialize_credentials

\* The places a Sunshine executable is looked for.
SunshinePaths ==
    {SYSTEM_PATHS[i] : i \in 1..Len(SYSTEM_PATHS)} \cup {"D:\\Games\\Sunshine\\sunshine.exe"}

\* Any disk, and any custom path set_custom_path accepted before (its file
\* may be gone since); no call of initialize_credentials yet.
CredsInit ==
    /\ fs \in SUBSET SunshinePaths
    /\ custom_path \in {NoPath} \cup {PathOf(p) : p \in SunshinePaths}
    /\ rop = "none" /\ rarg = NoPath /\ rpath = NoPath /\ rret = NoReturn
    /\ exe_path = NoPath /\ largs = NoArgs /\ spawn = NoSpawn
    /\ cargs = NoCreds /\ coutcome = NoProc /\ crun = NoRun /\ ctwin = NoRun

CredsStart == CredsInit /\ CodecIdle /\ InstallIdle /\ PinIdle /\ ConfigIdle /\ LocalIpIdle /\ StreamIdle /\ StatusIdle /\ SettingsIdle /\ HandlersIdle

SpecCreds == CredsStart /\ [][CredsNext]_vars

(***************************************************************************)
(* utils.py: get_local_ip. An address is the sequence of its code points;  *)
(* what the socket calls do is chosen by the surroundings before the call. *)
(***************************************************************************)
\* The most addresses getaddrinfo lists for the hostname.
MaxAddrs == 2

\* "a.b.c.d"
Dotted(a, b, c, d) ==
    DecStr(a) \o <<46>> \o DecStr(b) \o <<46>> \o DecStr(c) \o <<46>> \o DecStr(d)

\* "127.", "192.168.", "10." and "127.0.0.1"
LoopbackPrefix == <<49, 50, 55, 46>>

Prefix192 == <<49, 57, 50, 46, 49, 54, 56, 46>>

Prefix10 == <<49, 48, 46>>

FallbackLiteral == Dotted(127, 0, 0, 1)

AddressSamples ==
    { Dotted(192, 168, 1, 5), Dotted(10, 0, 0, 2), Dotted(127, 0, 0, 1), Dotted(127, 0, 1, 1),
      Dotted(172, 16, 0, 4), Dotted(100, 1, 1, 1), Dotted(192, 16, 8, 1) }

\* A socket call raised: socket(), connect(), getsockname(), gethostname() or getaddrinfo().
LookupRaised == [ok |-> FALSE, ips |-> <<>>]

LookupGave(ips) == [ok |-> TRUE, ips |-> ips]

\* s.getsockname()[0] of the connected UDP socket, or an exception.
UdpOutcomes == {LookupRaised} \cup { LookupGave(<<ip>>) : ip \in AddressSamples }

\* The sockaddr[0] of every entry getaddrinfo lists, or an exception.
HostOutcomes ==
    {LookupRaised} \cup { LookupGave(ips) : ips \in UNION { [1..n -> AddressSamples] : n \in 0..MaxAddrs } }

\* The UDP test without the loopback check.
AcceptUdpAny(ip) == TRUE

\* `if not ip.startswith("127."):`
AcceptUdp(ip) == ~StartsWith(ip, LoopbackPrefix)

\* `if ip.startswith("192.168.") or ip.startswith("10."):`
AcceptHost(ip) == StartsWith(ip, Prefix192) \/ StartsWith(ip, Prefix10)

\* The first try block: the address it returns, or <<>> when it falls through.
UdpStep(udp) == IF udp.ok /\ AcceptUdp(udp.ips[1]) THEN udp.ips[1] ELSE <<>>

\* The loop of the second try block over the entries from the i-th on.
RECURSIVE HostLoop(_, _)
HostLoop(ips, i) ==
    IF i > Len(ips) THEN <<>>
    ELSE IF AcceptHost(ips[i]) THEN ips[i]
    ELSE HostLoop(ips, i + 1)

\* The second try block.
HostStep(host) == IF host.ok THEN HostLoop(host.ips, 1) ELSE <<>>

\* get_local_ip(): the address returned and the number of the step that returned it.
LocalIp(udp, host) ==
    IF UdpStep(udp) # <<>> THEN [ip |-> UdpStep(udp), step |-> 1]
    ELSE IF HostStep(host) # <<>> THEN [ip |-> HostStep(host), step |-> 2]
    ELSE [ip |-> FallbackLiteral, step |-> 3]

LocalIpInit ==
    /\ gudp \in UdpOutcomes
    /\ ghost \in HostOutcomes
    /\ gpc = "start"
    /\ gresult = NoAddress

get_local_ip ==
    /\ gpc = "start"
    /\ gresult' = LocalIp(gudp, ghost)
    /\ gpc' = "returned"
    /\ UNCHANGED <<gudp, ghost>>
    /\ UNCHANGED notLocalIp

LocalIpNext == get_local_ip

LocalIpStart == LocalIpInit /\ CodecIdle /\ InstallIdle /\ ResolveIdle /\ PinIdle /\ ConfigIdle /\ CredsIdle /\ StreamIdle /\ StatusIdle /\ SettingsIdle /\ HandlersIdle

SpecLocalIp == LocalIpStart /\ [][LocalIpNext]_vars

(***************************************************************************)
(* qt_gui.py: ClientScreen.start_stream. The typed text and the host given *)
(* to launch are sequences of code points.                                 *)
(***************************************************************************)
\* The connection code the host screen shows for 192.168.1.5.
SharedCode == encode_connection_code(Dotted(192, 168, 1, 5))

\* What the user typed into the connection field.
TypedTexts ==
    {
      <<>>,                                                \* ""
      <<32, 32>>,                                          \* "  "
      <<49, 57, 50, 46, 49, 54, 56, 46, 49, 46, 53>>,      \* "192.168.1.5"
      <<32, 49, 48, 46, 48, 46, 48, 46, 50, 32>>,          \* " 10.0.0.2 "
      <<104, 111, 115, 116, 45, 112, 99>>,                 \* "host-pc"
      <<120, 98, 111, 120>>,                               \* "xbox"
      <<97, 115, 117, 115>>,                               \* "asus"
      <<49, 46, 52, 46, 49, 46, 49>>,                      \* "1.4.1.1"
      <<71, 83, 80, 45>>,                                  \* "GSP-"
      <<71, 83, 80, 45, 33, 33>>                           \* "GSP-!!"
    } \cup {SharedCode, <<32>> \o SharedCode \o <<10>>}

\* The items of combo_res.
ComboResolutions == {<<1920, 1080>>, <<1280, 720>>, <<2560, 1440>>}

\* The paths ClientScreen's runner may hold, and the files that may exist.
MoonlightPaths == {DEFAULT_PATHS[1], "D:\\Games\\Moonlight\\Moonlight.exe"}

\* `decode_connection_code(code) or code`
HostOf(code) ==
    LET decoded == decode_connection_code(code) IN
    IF decoded.ok /\ decoded.val # <<>> THEN decoded.val ELSE code

\* launch's arguments as start_stream passes them: the others keep their defaults.
StreamArgs(ip, res) ==
    [host |-> ip, width |-> res[1], height |-> res[2], fps |-> 60, bitrate |-> 20000,
     vsync |-> TRUE, app |-> "Desktop"]

StreamInit ==
    /\ stext \in TypedTexts
    /\ sres \in ComboResolutions
    /\ sbox = NoBox
    /\ spc = "start"
    /\ fs \in SUBSET MoonlightPaths
    /\ exe_path \in {NoPath} \cup {PathOf(p) : p \in MoonlightPaths}
    /\ custom_path = NoPath /\ rop = "none" /\ rarg = NoPath /\ rpath = NoPath
    /\ rret = NoReturn /\ largs = NoArgs /\ spawn = NoSpawn

\* ClientScreen.start_stream()
start_stream ==
    /\ spc = "start"
    /\ LET code == Strip(stext) IN
       IF code = <<>>
       THEN /\ sbox' = Warning("Code Required", "Enter the host code or IP.")
            /\ UNCHANGED resolveVars
       ELSE /\ Launch(StreamArgs(HostOf(code), sres))
            /\ sbox' = IF rret'.ok THEN NoBox ELSE Warning("Error", rret'.msg)
    /\ spc' = "done"
    /\ UNCHANGED <<stext, sres>>
    /\ UNCHANGED notStreamResolve

StreamNext == start_stream

StreamStart == StreamInit /\ CodecIdle /\ InstallIdle /\ PinIdle /\ ConfigIdle /\ CredsIdle /\ LocalIpIdle /\ StatusIdle /\ SettingsIdle /\ HandlersIdle

SpecStream == StreamStart /\ [][StreamNext]_vars

(***************************************************************************)
(* qt_gui.py: MainWindow._start_status_timer, _refresh_sunshine_status and *)
(* SunshineStatusWorker. A QThread isRunning() from start() until run()    *)
(* has returned; a signal it emits is queued to the UI thread.             *)
(***************************************************************************)
\* The most timeouts of the status timer in a run.
MaxTicks == 3

\* self.status_timer.setInterval(3000)
StatusInterval == 3000

\* A mutant of DisconnectAll: the earlier connections stay.
DisconnectNothing(click) == click

\* A mutant of StatusBusy: the running worker is not looked at.
StatusBusyNever(ws) == FALSE

\* hasattr(self, 'status_worker') and self.status_worker.isRunning():
\* status_worker is the worker made last.
StatusBusy(ws) == ws # <<>> /\ ws[Len(ws)] # "finished"

\* The body of _refresh_sunshine_status.
Refresh ==
    IF StatusBusy(sworkers)
    THEN UNCHANGED sworkers
    ELSE sworkers' = Append(sworkers, "started")

\* self.btn_status_action.clicked.disconnect(): every connection of the
\* signal is removed; with none to remove the call fails, which the except
\* clause lets pass.
DisconnectAll(click) == <<>>

\* The slot update_status connects for a status.
StatusHandler(running) == IF running THEN "open_web_ui" ELSE "start_sunshine"

\* The connections of the button after update_status(running).
Connected(click, running) == Append(DisconnectAll(click), StatusHandler(running))

\* _build_layout has run: HostScreen.__init__ made the button, with no
\* connection, and called update_status(False).
StatusInit ==
    /\ stimer = NoTimer /\ sworkers = <<>> /\ sticks = 0 /\ squeue = <<>>
    /\ slabel = "stopped"
    /\ sclick = Connected(<<>>, FALSE)

\* MainWindow.__init__: self._start_status_timer()
_start_status_timer ==
    /\ ~stimer.active
    /\ stimer' = [active |-> TRUE, interval |-> StatusInterval]
    /\ Refresh
    /\ UNCHANGED <<sticks, squeue, slabel, sclick>>
    /\ UNCHANGED notStatus

\* status_timer.timeout: the slot _refresh_sunshine_status runs on the UI thread.
_refresh_sunshine_status ==
    /\ stimer.active /\ sticks < MaxTicks
    /\ sticks' = sticks + 1
    /\ Refresh
    /\ UNCHANGED <<stimer, squeue, slabel, sclick>>
    /\ UNCHANGED notStatus

\* SunshineStatusWorker.run: running = SunshineManager.is_running();
\* self.result.emit(running)
StatusProbe(i, running) ==
    /\ sworkers[i] = "started"
    /\ sworkers' = [sworkers EXCEPT ![i] = "emitted"]
    /\ squeue' = Append(squeue, running)
    /\ UNCHANGED <<stimer, sticks, slabel, sclick>>

\* A started worker's thread runs run().
StatusRun ==
    /\ \E i \in 1..Len(sworkers), running \in BOOLEAN : StatusProbe(i, running)
    /\ UNCHANGED notStatus

\* run() returns: the thread is no longer running.
StatusFinished ==
    /\ \E i \in 1..Len(sworkers) :
        /\ sworkers[i] = "emitted"
        /\ sworkers' = [sworkers EXCEPT ![i] = "finished"]
    /\ UNCHANGED <<stimer, sticks, squeue, slabel, sclick>>
    /\ UNCHANGED notStatus

\* HostScreen.update_status(running), the slot of the oldest queued result.
update_status ==
    /\ squeue # <<>>
    /\ sclick' = Connected(sclick, Head(squeue))
    /\ slabel' = (IF Head(squeue) THEN "reachable" ELSE "stopped")
    /\ squeue' = Tail(squeue)
    /\ UNCHANGED <<stimer, sworkers, sticks>>
    /\ UNCHANGED notStatus

StatusNext ==
    \/ _start_status_timer \/ _refresh_sunshine_status \/ StatusRun \/ StatusFinished
    \/ update_status

StatusStart == StatusInit /\ CodecIdle /\ InstallIdle /\ ResolveIdle /\ PinIdle /\ ConfigIdle /\ CredsIdle /\ LocalIpIdle /\ StreamIdle /\ SettingsIdle /\ HandlersIdle

SpecStatus == StatusStart /\ [][StatusNext]_vars

(***************************************************************************)
(* qt_gui.py: SettingsScreen._on_sunshine_installed and                    *)
(* _on_moonlight_installed, the slots of InstallWorker.finished, with      *)
(* MainWindow.on_paths_changed which they call.                            *)
(***************************************************************************)
\* A mutant of PathKey: either tool's path goes under the Sunshine key.
PathKeySunshine(t) == "sunshine_path"

\* The config key and the path a tool's installer returns.
PathKey(t) == IF t = "sunshine" THEN "sunshine_path" ELSE "moonlight_path"

InstalledPath(t) ==
    IF t = "sunshine" THEN "D:\\Games\\Sunshine\\sunshine.exe"
    ELSE "D:\\Games\\Moonlight\\Moonlight.exe"

\* The arguments of the finished signal as the slot gets them: install()
\* returned (True, exe_path), (True, None), which the str argument of the
\* signal carries as None or as "", or (False, str(e)).
FinishedArgs(t) ==
    { [success |-> TRUE, res |-> PathOf(InstalledPath(t))],
      [success |-> TRUE, res |-> NoPath],
      [success |-> TRUE, res |-> PathOf("")],
      [success |-> FALSE, res |-> PathOf("GitHub API Failed: 403")],
      [success |-> FALSE, res |-> PathOf(IF t = "sunshine"
                                         THEN "No suitable Windows release found on GitHub."
                                         ELSE "No suitable Portable release found.")] }

\* self.config, as far as the two path keys go: NoPath for a key not set.
PathConfigs ==
    { [k \in {"sunshine_path", "moonlight_path"} |-> IF k = "sunshine_path" THEN s ELSE m] :
        s \in {NoPath, PathOf(SYSTEM_PATHS[1])}, m \in {NoPath, PathOf(DEFAULT_PATHS[1])} }

\* The files that may be on disk when the slot runs.
SettingsFiles == {InstalledPath("sunshine"), InstalledPath("moonlight"), DEFAULT_PATHS[1]}

\* QLabel(path or "Not configured")
PathLabel(p) == IF Truthy(p) THEN p.path ELSE "Not configured"

\* The notification of a successful install.
InstalledBox(t) ==
    IF t = "sunshine"
    THEN Information("Sunshine Installed", "Sunshine was installed successfully.")
    ELSE Information("Moonlight Installed", "Moonlight was installed successfully.")

\* MainWindow.on_paths_changed() with the config c: set_custom_path when a
\* Sunshine path is set, and a new MoonlightRunner for the client screen.
PathsChanged(c) ==
    LET sun_path == c["sunshine_path"]
        moon == Or(c["moonlight_path"], _find_moonlight) IN
    /\ custom_path' = (IF Truthy(sun_path) /\ Exists(sun_path) THEN sun_path ELSE custom_path)
    /\ exe_path' = moon
    /\ rop' = "runner" /\ rarg' = c["moonlight_path"] /\ rpath' = moon /\ rret' = NoReturn
    /\ spawn' = NoSpawn /\ largs' = NoArgs
    /\ UNCHANGED fs

\* The body the two slots share, for the tool t.
OnInstalled(t) ==
    /\ npc = "queued" /\ ntool = t
    /\ noverlay' = FALSE
    /\ IF nargs.success
       THEN /\ npath' = nargs.res
            /\ nconfig' = [nconfig EXCEPT ![PathKey(t)] = nargs.res]
            /\ nsaved' = [saved |-> TRUE, cfg |-> nconfig']
            /\ nlabel' = nargs.res.path
            /\ PathsChanged(nconfig')
            /\ nbox' = InstalledBox(t)
            /\ ncalls' = <<"_hide_install_overlay", "save_config", "setText",
                           "on_paths_changed", "QMessageBox.information">>
       ELSE /\ nbox' = Warning("Install Failed", nargs.res.path)
            /\ ncalls' = <<"_hide_install_overlay", "QMessageBox.warning">>
            /\ UNCHANGED <<npath, nconfig, nsaved, nlabel>>
            /\ UNCHANGED resolveVars
    /\ npc' = "handled"
    /\ UNCHANGED <<ntool, nargs>>

\* SettingsScreen._on_sunshine_installed(success, res)
_on_sunshine_installed ==
    /\ OnInstalled("sunshine")
    /\ UNCHANGED notSettingsResolve

\* SettingsScreen._on_moonlight_installed(success, res)
_on_moonlight_installed ==
    /\ OnInstalled("moonlight")
    /\ UNCHANGED notSettingsResolve

\* The worker's finished signal is queued; the overlay is up.
SettingsInit ==
    /\ ntool \in Tools
    /\ nargs \in FinishedArgs(ntool)
    /\ nconfig \in PathConfigs
    /\ npath = nconfig[PathKey(ntool)]
    /\ nlabel = PathLabel(npath)
    /\ nsaved = NoSave /\ nbox = NoBox /\ noverlay = TRUE /\ npc = "queued"
    /\ ncalls = <<>>
    /\ fs \in SUBSET SettingsFiles
    /\ custom_path = NoPath
    /\ exe_path = Or(nconfig["moonlight_path"], _find_moonlight)
    /\ rop = "none" /\ rarg = NoPath /\ rpath = NoPath /\ rret = NoReturn
    /\ largs = NoArgs /\ spawn = NoSpawn

SettingsNext == _on_sunshine_installed \/ _on_moonlight_installed

SettingsStart == SettingsInit /\ CodecIdle /\ InstallIdle /\ PinIdle /\ ConfigIdle /\ CredsIdle /\ LocalIpIdle /\ StreamIdle /\ StatusIdle /\ HandlersIdle

SpecSettings == SettingsStart /\ [][SettingsNext]_vars

(***************************************************************************)
(* qt_gui.py: the slots HostScreen.start_sunshine, HostScreen.on_send_pin  *)
(* and SettingsScreen.save_credentials, which Qt runs on the UI thread,    *)
(* and SunshineStatusWorker.run, which runs on the worker's own thread.    *)
(* The text of a field is the sequence of its characters.                  *)
(***************************************************************************)
\* What was typed into the PIN, username and password fields.
PinTexts == {<<>>, <<" ">>, <<"1", "2", "3", "4">>, <<" ", "1", "2", "3", "4", "\n">>}

UserTexts == {<<>>, <<" ", " ">>, <<"a", "d", "m", "i", "n">>, <<" ", "a", "d", "m", "i", "n">>}

PassTexts ==
    {<<>>, <<" ">>, <<"s", "e", "c", "r", "e", "t">>, <<"s", "e", "c", "r", "e", "t", " ">>,
     <<"h", "u", "n", "t", "e", "r", "2">>}

IsBlank(ch) == ch \in {" ", "\t", "\n", "\r"}

\* str.strip() of a field's text.
RECURSIVE FieldStrip(_)
FieldStrip(chars) ==
    IF chars = <<>> THEN <<>>
    ELSE IF IsBlank(Head(chars)) THEN FieldStrip(Tail(chars))
    ELSE IF IsBlank(chars[Len(chars)]) THEN FieldStrip(SubSeq(chars, 1, Len(chars) - 1))
    ELSE chars

\* The str of a sequence of characters.
RECURSIVE Concat(_)
Concat(chars) == IF chars = <<>> THEN "" ELSE Head(chars) \o Concat(Tail(chars))

\* A blocking call, and the thread that made it.
Blocking(op, thread) == [op |-> op, thread |-> thread]

\* The thread a slot connected to a widget's signal runs on.
SlotThread == "ui"

\* The thread QThread.run runs on.
RunThread == "worker"

\* QMessageBox.critical(self, title, text)
Critical(title, text) == [kind |-> "critical", title |-> title, text |-> text]

\* The blocking calls start_service made, by what it left behind.
SpawnCalls(sp, thread) ==
    IF sp.attempted THEN {Blocking("subprocess.Popen", thread)} ELSE {}

\* The window is up: the status timer runs and its first worker is started;
\* any disk, any custom path, either state of the API's auth.
HandlersInit ==
    /\ hlast = "none" /\ hlog = {} /\ hbox = NoBox /\ hcreds = NoCredsSaved
    /\ hleft = 1
    /\ \E username \in Usernames, password \in Passwords :
        auth = InitAuth(username, password)
    /\ pcall = "init" /\ preq = NoRequest /\ poutcome = NoOutcome /\ pret = NoReturn
    /\ fs \in SUBSET SunshinePaths
    /\ custom_path \in {NoPath} \cup {PathOf(p) : p \in SunshinePaths}
    /\ rop = "none" /\ rarg = NoPath /\ rpath = NoPath /\ rret = NoReturn
    /\ exe_path = NoPath /\ largs = NoArgs /\ spawn = NoSpawn
    /\ cargs = NoCreds /\ coutcome = NoProc /\ crun = NoRun /\ ctwin = NoRun
    /\ stimer = [active |-> TRUE, interval |-> StatusInterval]
    /\ sworkers = <<"started">> /\ sticks = 0 /\ squeue = <<>> /\ slabel = "stopped"
    /\ sclick = Connected(<<>>, FALSE)

\* HostScreen.start_sunshine()
start_sunshine ==
    /\ hleft > 0
    /\ hleft' = hleft - 1
    /\ StartService(NoPath)
    /\ hbox' = (IF rret'.ok THEN NoBox ELSE Warning("Failed to start Sunshine", rret'.msg))
    /\ hlog' = hlog \cup SpawnCalls(spawn', SlotThread)
    /\ hlast' = "start_sunshine"
    /\ UNCHANGED hcreds
    /\ UNCHANGED <<pinVars, credsVars, statusVars>>
    /\ UNCHANGED notHandlersBackend

\* HostScreen.on_send_pin()
on_send_pin ==
    /\ hleft > 0
    /\ hleft' = hleft - 1
    /\ \E typed \in PinTexts, o \in Outcomes :
        LET pin == Concat(FieldStrip(typed)) IN
        IF pin = ""
        THEN /\ hbox' = Warning("PIN Required", "Enter the PIN shown in Moonlight.")
             /\ UNCHANGED <<hlog, pinVars>>
        ELSE /\ SendPin(StrPin(pin), o)
             /\ hbox' = (IF pret'.ok THEN Information("PIN Sent", "PIN sent successfully.")
                         ELSE Warning("Error", pret'.msg))
             /\ hlog' = hlog \cup {Blocking("requests.post", SlotThread)}
    /\ hlast' = "on_send_pin"
    /\ UNCHANGED hcreds
    /\ UNCHANGED <<resolveVars, credsVars, statusVars>>
    /\ UNCHANGED notHandlersBackend

\* SettingsScreen.save_credentials(); MainWindow.on_credentials_changed is
\* the slot of credentials_changed, called from emit.
save_credentials ==
    /\ hleft > 0
    /\ hleft' = hleft - 1
    /\ \E utext \in UserTexts, ptext \in PassTexts, o \in ProcOutcomes, running \in BOOLEAN :
        LET user == Concat(FieldStrip(utext))
            pwd == Concat(FieldStrip(ptext)) IN
        IF user = "" \/ pwd = ""
        THEN /\ hbox' = Warning("Missing Data", "Please enter both username and password.")
             /\ UNCHANGED <<hlog, hcreds, pinVars, resolveVars, credsVars>>
        ELSE /\ hcreds' = [saved |-> TRUE, sunshine_user |-> user, sunshine_pass |-> pwd]
             /\ \E twin \in Secrets \ {pwd} : InitializeCredentials(user, pwd, twin, o)
             /\ IF crun'.ok
                THEN /\ hbox' = Information("Success",
                                    "Credentials initialized!\nYou can now pair directly.")
                     /\ UpdateAuth(user, pwd)
                     /\ IF running THEN UNCHANGED resolveVars ELSE StartService(NoPath)
                     /\ hlog' = hlog \cup {Blocking("subprocess.run", SlotThread),
                                           Blocking("socket.create_connection", SlotThread)}
                                     \cup (IF running THEN {}
                                           ELSE SpawnCalls(spawn', SlotThread))
                ELSE /\ hbox' = Critical("Initialization Failed", crun'.msg)
                     /\ UNCHANGED <<pinVars, resolveVars>>
                     /\ hlog' = hlog \cup (IF crun'.cmd # <<>>
                                           THEN {Blocking("subprocess.run", SlotThread)}
                                           ELSE {})
    /\ hlast' = "save_credentials"
    /\ UNCHANGED statusVars
    /\ UNCHANGED notHandlersBackend

\* SunshineStatusWorker.run()
SunshineStatusWorker_run ==
    /\ hleft > 0
    /\ hleft' = hleft - 1
    /\ \E i \in 1..Len(sworkers), running \in BOOLEAN : StatusProbe(i, running)
    /\ hlog' = hlog \cup {Blocking("socket.create_connection", RunThread)}
    /\ hlast' = "SunshineStatusWorker.run"
    /\ UNCHANGED <<hbox, hcreds>>
    /\ UNCHANGED <<pinVars, resolveVars, credsVars>>
    /\ UNCHANGED notHandlersBackend

HandlersNext == start_sunshine \/ on_send_pin \/ save_credentials \/ SunshineStatusWorker_run

HandlersStart == HandlersInit /\ CodecIdle /\ InstallIdle /\ ConfigIdle /\ LocalIpIdle /\ StreamIdle /\ SettingsIdle

SpecHandlers == HandlersStart /\ [][HandlersNext]_vars

(***************************************************************************)
(* qt_gui.py: the Save button of the settings screen, pressed again and    *)
(* again while the window is up.                                           *)
(***************************************************************************)
MaxCalls == 3

\* MainWindow.__init__ has run: SunshineAPI(sunshine_user, sunshine_pass) from
\* the config that was loaded, which named no Sunshine path; Sunshine is
\* installed in the first system path or not at all.
CredsSeqInit ==
    /\ hlast = "none" /\ hlog = {} /\ hbox = NoBox /\ hcreds = NoCredsSaved
    /\ hleft = MaxCalls
    /\ \E username \in Usernames, password \in Passwords :
        auth = InitAuth(username, password)
    /\ pcall = "init" /\ preq = NoRequest /\ poutcome = NoOutcome /\ pret = NoReturn
    /\ fs \in {{}, {SYSTEM_PATHS[1]}}
    /\ custom_path = NoPath
    /\ rop = "none" /\ rarg = NoPath /\ rpath = NoPath /\ rret = NoReturn
    /\ exe_path = NoPath /\ largs = NoArgs /\ spawn = NoSpawn
    /\ cargs = NoCreds /\ coutcome = NoProc /\ crun = NoRun /\ ctwin = NoRun
    /\ stimer = [active |-> TRUE, interval |-> StatusInterval]
    /\ sworkers = <<"started">> /\ sticks = 0 /\ squeue = <<>> /\ slabel = "stopped"
    /\ sclick = Connected(<<>>, FALSE)

CredsSeqNext == save_credentials

CredsSeqStart == CredsSeqInit /\ CodecIdle /\ InstallIdle /\ ConfigIdle /\ LocalIpIdle /\ StreamIdle /\ SettingsIdle

SpecCredsSeq == CredsSeqStart /\ [][CredsSeqNext]_vars

(***************************************************************************)
(* qt_gui.py: save_config and load_config. Keys, values and the file are   *)
(* sequences of code points; a mapping is the sequence of its (key, value) *)
(* pairs in insertion order, its keys distinct.                            *)
(***************************************************************************)
\* "="
EqualsSign == 61

\* "\n"
LineFeed == 10

\* "\r"
CarriageReturn == 13

MaxEntries == 2

\* "a", "a ", " a", " ", "", "a="
KeySamples == {<<97>>, <<97, 32>>, <<32, 97>>, <<32>>, <<>>, <<97, 61>>}

\* "1", "", " 1", "1\t", "1=2", "1\n2", "1\r", a lone surrogate
ValueSamples ==
    {<<49>>, <<>>, <<32, 49>>, <<49, 9>>, <<49, 61, 50>>, <<49, 10, 50>>, <<49, 13>>,
     <<55296>>}

Keys(d) == {d[i][1] : i \in 1..Len(d)}

\* The dicts of at most n entries, as the orders their keys were inserted in.
RECURSIVE Mappings(_)
Mappings(n) ==
    IF n = 0 THEN {<<>>}
    ELSE LET smaller == Mappings(n - 1) IN
        smaller \cup
        UNION {{Append(d, <<k, v>>) : k \in KeySamples \ Keys(d), v \in ValueSamples} :
               d \in {m \in smaller : Len(m) = n - 1}}

\* A mutant of DictSet: a key that is present keeps its value.
DictSetDefault(d, k, v) ==
    IF k \in Keys(d) THEN d ELSE Append(d, <<k, v>>)

\* d[k] = v
DictSet(d, k, v) ==
    IF k \in Keys(d) THEN [i \in 1..Len(d) |-> IF d[i][1] = k THEN <<k, v>> ELSE d[i]]
    ELSE Append(d, <<k, v>>)

\* a == b, for dicts
DictEq(a, b) ==
    /\ Keys(a) = Keys(b)
    /\ \A i \in 1..Len(a), j \in 1..Len(b) : a[i][1] = b[j][1] => a[i][2] = b[j][2]

\* The UTF-8 encoder of the file accepts s.
Encodable(s) == \A i \in 1..Len(s) : ~IsSurrogate(s[i])

\* f"{k}={v}\n"
FormatLine(k, v) == k \o <<EqualsSign>> \o v \o <<LineFeed>>

\* for k, v in cfg.items(): f.write(...), up to the write whose text the
\* encoder rejects; what was written before it reaches the file at close.
RECURSIVE WriteLines(_)
WriteLines(d) ==
    IF d = <<>> THEN [ok |-> TRUE, text |-> <<>>]
    ELSE LET line == FormatLine(Head(d)[1], Head(d)[2]) IN
        IF ~Encodable(line) THEN [ok |-> FALSE, text |-> <<>>]
        ELSE LET rest == WriteLines(Tail(d)) IN
            [ok |-> rest.ok, text |-> line \o rest.text]

\* Text mode, writing: "\n" becomes os.linesep.
RECURSIVE WriteTranslate(_, _)
WriteTranslate(text, sep) ==
    IF text = <<>> THEN <<>>
    ELSE (IF Head(text) = LineFeed THEN sep ELSE <<Head(text)>>)
            \o WriteTranslate(Tail(text), sep)

\* Text mode, reading: "\r\n" and "\r" become "\n".
RECURSIVE ReadTranslate(_)
ReadTranslate(data) ==
    IF data = <<>> THEN <<>>
    ELSE IF Head(data) = CarriageReturn
        THEN <<LineFeed>> \o
             ReadTranslate(IF Len(data) >= 2 /\ data[2] = LineFeed
                           THEN Tail(Tail(data)) ELSE Tail(data))
    ELSE <<Head(data)>> \o ReadTranslate(Tail(data))

\* for line in f: the lines, each with its "\n", the last perhaps without.
RECURSIVE Lines(_)
Lines(text) ==
    IF text = <<>> THEN <<>>
    ELSE LET ends == {i \in 1..Len(text) : text[i] = LineFeed} IN
        IF ends = {} THEN <<text>>
        ELSE LET n == CHOOSE i \in ends : \A j \in ends : i <= j IN
            <<SubSeq(text, 1, n)>> \o Lines(DropFirst(text, n))

\* A mutant of SplitFirst: the split is made at the last "=".
SplitLast(t) ==
    LET at == {i \in 1..Len(t) : t[i] = EqualsSign}
        n == CHOOSE i \in at : \A j \in at : i >= j
    IN <<SubSeq(t, 1, n - 1), DropFirst(t, n)>>

\* t.split("=", 1), for a t that holds "="
SplitFirst(t) ==
    LET at == {i \in 1..Len(t) : t[i] = EqualsSign}
        n == CHOOSE i \in at : \A j \in at : i <= j
    IN <<SubSeq(t, 1, n - 1), DropFirst(t, n)>>

\* if "=" in line: k, v = line.strip().split("=", 1); cfg[k] = v.strip()
LoadLine(d, line) ==
    IF \E i \in 1..Len(line) : line[i] = EqualsSign
    THEN LET kv == SplitFirst(Strip(line)) IN DictSet(d, kv[1], Strip(kv[2]))
    ELSE d

RECURSIVE LoadLines(_, _)
LoadLines(d, lines) ==
    IF lines = <<>> THEN d ELSE LoadLines(LoadLine(d, Head(lines)), Tail(lines))

ConfigInit ==
    /\ cfg \in Mappings(MaxEntries)
    /\ linesep \in {<<LineFeed>>, <<CarriageReturn, LineFeed>>}
    /\ file = NoFile /\ faults = {} /\ loaded = <<>> /\ kpc = "start"

\* save_config(cfg)
save_config ==
    /\ kpc = "start"
    /\ \/ \* open() raises: the file is as it was
          /\ faults' = faults \cup {"save"}
          /\ UNCHANGED file
       \/ LET w == WriteLines(cfg) IN
          /\ file' = [exists |-> TRUE, data |-> WriteTranslate(w.text, linesep)]
          /\ faults' = (IF w.ok THEN faults ELSE faults \cup {"save"})
    /\ kpc' = "saved"
    /\ UNCHANGED <<cfg, linesep, loaded>>
    /\ UNCHANGED notConfig

\* load_config()
load_config ==
    /\ kpc = "saved"
    /\ IF ~file.exists THEN loaded' = <<>> /\ UNCHANGED faults
       ELSE \/ \* open() raises: cfg is still empty
               /\ loaded' = <<>>
               /\ faults' = faults \cup {"load"}
            \/ IF Encodable(file.data)
               THEN /\ loaded' = LoadLines(<<>>, Lines(ReadTranslate(file.data)))
                    /\ UNCHANGED faults
               ELSE \* the first read raises UnicodeDecodeError: cfg is still empty
                    /\ loaded' = <<>>
                    /\ faults' = faults \cup {"load"}
    /\ kpc' = "loaded"
    /\ UNCHANGED <<cfg, linesep, file>>
    /\ UNCHANGED notConfig

ConfigNext == save_config \/ load_config

ConfigStart == ConfigInit /\ CodecIdle /\ InstallIdle /\ ResolveIdle /\ PinIdle /\ CredsIdle /\ LocalIpIdle /\ StreamIdle /\ StatusIdle /\ SettingsIdle /\ HandlersIdle

SpecConfig == ConfigStart /\ [][ConfigNext]_vars

(***************************************************************************)
(* qt_gui.py: load_config on a gb_config.txt of any content. A surrogate   *)
(* in the data stands for bytes the strict UTF-8 decoder rejects; the      *)
(* files here are shorter than one read of the text layer, so the first    *)
(* read decodes the whole file or raises.                                  *)
(***************************************************************************)
\* The most lines in the file.
MaxLines == 3

\* "a=1", "a=2", "b=1", " a = 1 ", "a=1=2", "=", "junk", "", and "b=" with
\* bytes that do not decode
LineSamples ==
    {<<97, 61, 49>>, <<97, 61, 50>>, <<98, 61, 49>>, <<32, 97, 32, 61, 32, 49, 32>>,
     <<97, 61, 49, 61, 50>>, <<61>>, <<106, 117, 110, 107>>, <<>>, <<98, 61, 55296>>}

\* The lines, each followed by the line end, the last one only if closed.
RECURSIVE JoinLines(_, _, _)
JoinLines(ls, end, closed) ==
    IF ls = <<>> THEN <<>>
    ELSE IF Len(ls) = 1 THEN Head(ls) \o (IF closed THEN end ELSE <<>>)
    ELSE Head(ls) \o end \o JoinLines(Tail(ls), end, closed)

FileContents ==
    { JoinLines(ls, end, closed) :
        ls \in UNION { [1..n -> LineSamples] : n \in 0..MaxLines },
        end \in {<<LineFeed>>, <<CarriageReturn, LineFeed>>},
        closed \in BOOLEAN }

\* Startup: gb_config.txt is missing, or holds anything.
LoadInit ==
    /\ file \in {NoFile} \cup { [exists |-> TRUE, data |-> d] : d \in FileContents }
    /\ cfg = <<>> /\ linesep = <<LineFeed>> /\ faults = {} /\ loaded = <<>>
    /\ kpc = "saved"

LoadNext == load_config

LoadStart == LoadInit /\ CodecIdle /\ InstallIdle /\ ResolveIdle /\ PinIdle /\ CredsIdle /\ LocalIpIdle /\ StreamIdle /\ StatusIdle /\ SettingsIdle /\ HandlersIdle

SpecLoad == LoadStart /\ [][LoadNext]_vars

(***************************************************************************)
(* C1: for every valid IPv4 or IPv6 literal ip,                            *)
(* decode_connection_code(encode_connection_code(ip)) returns exactly ip.  *)
(***************************************************************************)
C1_RoundTrip ==
    (ckind = "ip" /\ cpc = "decoded") => cresult = Some(cinput)

\* An address whose code lost its padding was encoded and decoded.
C1_Witness ==
    /\ ckind = "ip" /\ cpc = "decoded"
    /\ Len(cinput) % 3 = 1
    /\ Len(ccode) % 4 = 2
    /\ cresult.ok

(***************************************************************************)
(* C2: decode_connection_code returns None for every malformed input: a    *)
(* string whose length cannot be padded to a base64 string, a string with  *)
(* a character outside the base64 alphabet, and the empty string.          *)
(***************************************************************************)
IsUrlsafeChar(c) == B64Val(UrlsafeTranslate(c)) < 64

Malformed(code) ==
    LET body == StripPrefix(Strip(code)) IN
    \/ body = <<>>
    \/ Len(body) % 4 = 1
    \/ \E i \in 1..Len(body) : ~IsUrlsafeChar(body[i]) /\ body[i] # 61

C2_MalformedGivesNone ==
    (ckind = "raw" /\ cpc = "decoded" /\ Malformed(cinput)) => cresult = None

(***************************************************************************)
(* C3: in both installers, an archive asset whose name holds the platform  *)
(* tag and "portable" is chosen before one that holds only "portable",     *)
(* whatever their order; nothing is chosen, and install fails with its "no *)
(* suitable release" error, when no asset name holds "portable"; and the   *)
(* match ignores case.                                                     *)
(***************************************************************************)
PlatformTag(t) == IF t = "moonlight" THEN X64 ELSE Windows

HoldsBoth(t, a) ==
    /\ Contains(Lower(a.name), PlatformTag(t))
    /\ Contains(Lower(a.name), Portable)
    /\ EndsWith(Lower(a.name), DotZip)

C3_AssetSelection ==
    (ipc # "select") =>
        /\ (\E i \in 1..Len(assets) : HoldsBoth(tool, assets[i]))
            => /\ url.ok
               /\ \E i \in 1..Len(assets) :
                    HoldsBoth(tool, assets[i]) /\ url.val = assets[i].url
        /\ (\A i \in 1..Len(assets) : ~Contains(Lower(assets[i].name), Portable))
            => /\ ~url.ok
               /\ ipc = "returned"
               /\ result = [success |-> FALSE, res |-> Some(Msg(NoSuitableMessage(tool)))]

(***************************************************************************)
(* C4: in a successful install run whose download declares its total size  *)
(* (content-length) and delivers it, in any chunking, the percentages      *)
(* passed to the progress callback never decrease and the last is 100.     *)
(***************************************************************************)
NonDecreasing(seq) == \A i \in 1..(Len(seq) - 1) : seq[i] <= seq[i + 1]

C5_PercentInRange ==
    /\ \A i \in 1..Len(events) : events[i] >= 0 /\ events[i] <= 100
    /\ (ipc = "returned" /\ \E i \in 1..Len(events) : events[i] = 100) => result.success

(***************************************************************************)
(* C6: for an install run started through InstallWorker or                 *)
(* start_install_thread the terminal callback is delivered exactly once,   *)
(* after install() returned, and no progress callback of the run is        *)
(* delivered after it.                                                     *)
(***************************************************************************)
C6_TerminalOnceAndLast ==
    /\ \A i \in 1..Len(delivered) :
        delivered[i].kind = "finished" => (i = Len(delivered) /\ ipc = "returned")
    /\ (wpc = "finished" /\ queue = <<>>)
        => /\ Len(delivered) >= 1
           /\ delivered[Len(delivered)] = FinishedSignal(result)

\* A worker's run ended and all its signals reached the UI thread.
C6_Witness ==
    /\ via = "worker" /\ wpc = "finished" /\ queue = <<>>
    /\ Len(delivered) >= 5
    /\ delivered[Len(delivered)].kind = "finished"

(***************************************************************************)
(* C7: executable resolution (start_service, _find_executable, the         *)
(* construction of MoonlightRunner) yields the first candidate that exists *)
(* on disk in the order explicit override, configured custom path,         *)
(* well-known paths, and None only when none exists: an override or        *)
(* configured path that is not on disk is skipped.                         *)
(***************************************************************************)
Candidates ==
    IF rop = "runner" THEN <<rarg>> \o [i \in 1..Len(DEFAULT_PATHS) |-> PathOf(DEFAULT_PATHS[i])]
    ELSE <<rarg, custom_path>> \o [i \in 1..Len(SYSTEM_PATHS) |-> PathOf(SYSTEM_PATHS[i])]

FirstThatExists(cands) ==
    LET found == {i \in 1..Len(cands) : cands[i].some /\ cands[i].path \in fs} IN
    IF found = {} THEN NoPath ELSE cands[CHOOSE i \in found : \A j \in found : i <= j]

C7_FirstExistingCandidate ==
    (rop \in {"find", "start", "runner"}) => rpath = FirstThatExists(Candidates)

(***************************************************************************)
(* C8: send_pin never raises and maps each outcome of the POST to its own  *)
(* result: 200 gives (True, the success message); 401 gives (False, the    *)
(* authentication-failed message); any other status gives (False, an       *)
(* error carrying the status code and the body); a connection failure      *)
(* gives (False, the not-running-or-not-reachable message); any other      *)
(* exception gives (False, the exception's message).                       *)
(***************************************************************************)
C8_SendPinMapping ==
    (pcall = "send_pin") =>
        /\ pret.returned
        /\ (poutcome.kind = "response" /\ poutcome.status = 200)
            => (pret.ok /\ pret.msg = "PIN accepted by Sunshine.")
        /\ (poutcome.kind = "response" /\ poutcome.status = 401)
            => (~pret.ok
                /\ pret.msg = "Authentication Failed (check Sunshine username/password).")
        /\ (poutcome.kind = "response" /\ poutcome.status \notin {200, 401})
            => (~pret.ok
                /\ pret.msg = "Error " \o ToString(poutcome.status) \o ": " \o poutcome.text)
        /\ (poutcome.kind = "raise" /\ poutcome.cls \in ConnectionErrors)
            => (~pret.ok /\ pret.msg = "Sunshine is not running or not reachable.")
        /\ (poutcome.kind = "raise" /\ poutcome.cls \notin ConnectionErrors)
            => (~pret.ok /\ pret.msg = poutcome.msg)

\* A PIN was posted with credentials and the service answered 401.
C8_Witness ==
    /\ pcall = "send_pin" /\ preq.sent /\ preq.auth = <<"admin", "secret">>
    /\ poutcome.kind = "response" /\ poutcome.status = 401
    /\ pret = Return(FALSE, "Authentication Failed (check Sunshine username/password).")

(***************************************************************************)
(* C9: for every mapping from keys (non-empty, no "=", no line break) to   *)
(* values (no line break), the empty mapping included, save_config(cfg)    *)
(* followed by load_config() returns a mapping equal to cfg.               *)
(***************************************************************************)
IsLineBreak(c) == c \in {LineFeed, CarriageReturn}

KeyAsClaimed(k) ==
    /\ k # <<>>
    /\ \A i \in 1..Len(k) : k[i] # EqualsSign /\ ~IsLineBreak(k[i])

ValueAsClaimed(v) == \A i \in 1..Len(v) : ~IsLineBreak(v[i])

AsClaimed(d) == \A i \in 1..Len(d) : KeyAsClaimed(d[i][1]) /\ ValueAsClaimed(d[i][2])

Trimmed(d) == \A i \in 1..Len(d) : LStrip(d[i][1]) = d[i][1] /\ Strip(d[i][2]) = d[i][2]

C10_NoFaultEscapes ==
    /\ ~escaped
    /\ ipc # "escaped"
    /\ (ipc = "returned") =>
        /\ result.success <=> (done = AllSteps)
        /\ ~result.success => result.res.ok

\* The progress callback raised during the download and install() returned
\* the failure.
C10_Witness ==
    /\ ipc = "returned" /\ ~result.success
    /\ result.res = Some(Msg("callback error"))
    /\ "open" \in done /\ "stream" \notin done
    /\ Len(events) >= 3

(***************************************************************************)
(* C11: launch, open_gui and start_service (with or without an explicit    *)
(* path) return (True, message) only when the executable exists and the    *)
(* spawn did not throw; they return (False, message) without spawning      *)
(* anything whenever the executable is missing, and (False, message)       *)
(* whenever spawning throws.                                               *)
(***************************************************************************)
\* The executable the last call was to start.
Executable == IF rop = "start" THEN rpath ELSE exe_path

C11_LaunchContract ==
    (rop \in {"launch", "open_gui", "start"}) =>
        /\ rret.returned
        /\ rret.ok => (Exists(Executable) /\ spawn.attempted /\ ~spawn.threw)
        /\ ~Exists(Executable) => (~rret.ok /\ ~spawn.attempted)
        /\ spawn.threw => ~rret.ok

(***************************************************************************)
(* C19: launch builds the argument list executable, "stream", host, app    *)
(* name, "--resolution" "WxH", "--fps" N, "--bitrate" N, then exactly one  *)
(* of "--vsync" / "--no-vsync" chosen by the vsync flag, then              *)
(* "--quit-after" as the final argument.                                   *)
(***************************************************************************)
\* The arguments up to the bitrate, as documented.
DocumentedHead ==
    << exe_path.path, "stream", largs.host, largs.app,
       "--resolution", ToString(largs.width) \o "x" \o ToString(largs.height),
       "--fps", ToString(largs.fps), "--bitrate", ToString(largs.bitrate) >>

VsyncFlag == IF largs.vsync THEN "--vsync" ELSE "--no-vsync"

C19_QuitAfterLast ==
    (rop = "launch" /\ spawn.attempted)
        => spawn.cmd = DocumentedHead \o <<VsyncFlag, "--quit-after">>

\* C19, amended: the list is as documented up to the bitrate, then
\* "--quit-after", then exactly one of "--vsync" / "--no-vsync" chosen by the
\* vsync flag as the final argument.
C19_VsyncLast ==
    (rop = "launch" /\ spawn.attempted)
        => spawn.cmd = DocumentedHead \o <<"--quit-after", VsyncFlag>>

\* A 1280x720 stream without vsync was launched.
C19_Witness ==
    /\ rop = "launch" /\ spawn.attempted /\ ~spawn.threw
    /\ ~largs.vsync /\ largs.width = 1280 /\ largs.fps = 30
    /\ Len(spawn.cmd) = 12
    /\ spawn.cmd[6] = "1280x720" /\ spawn.cmd[12] = "--no-vsync"

(***************************************************************************)
(* C17: when download and extraction succeed but the executable is nowhere *)
(* in the extracted tree, install() still reports success with a null      *)
(* path: it returns (True, None), after reporting progress 100.            *)
(***************************************************************************)
C17_SuccessWithNullPath ==
    (ipc = "returned" /\ {"stream", "extract", "cb_done"} \subseteq done /\ exe = None)
        => /\ result = [success |-> TRUE, res |-> None]
           /\ events # <<>> /\ events[Len(events)] = 100

\* The archive was downloaded and extracted, the search found no executable,
\* and install() returned.
C17_Witness ==
    /\ ipc = "returned" /\ {"stream", "extract", "cb_done"} \subseteq done
    /\ exe = None /\ dirExists
    /\ result.success /\ ~result.res.ok
    /\ events[Len(events)] = 100

(***************************************************************************)
(* C14: initialize_credentials returns (True, ...) exactly when the        *)
(* "--creds <username> <password>" subprocess exits with code 0; a         *)
(* non-zero exit returns (False, the captured stderr), or (False, a        *)
(* generic message) when stderr is empty; when the executable cannot be    *)
(* found or the username or password is empty it returns (False, message)  *)
(* without running any subprocess.                                         *)
(***************************************************************************)
\* The call ran the subprocess, which exited.
Exits == crun.cmd # <<>> /\ coutcome.kind = "exit"

\* What the claim leaves the same in both statements.
CredsFrame ==
    /\ crun.ok <=> (Exits /\ coutcome.returncode = 0)
    /\ crun.cmd # <<>> => crun.cmd = <<crun.exe.path, "--creds", cargs.username,
                                       cargs.password>>
    /\ (~Truthy(crun.exe) \/ cargs.username = "" \/ cargs.password = "")
        => (~crun.ok /\ crun.cmd = <<>> /\ Len(crun.msg) = 1)

LoggedPieces(run) == UNION {{l.pieces[i] : i \in 1..Len(l.pieces)} : l \in {run.log[j] : j \in 1..Len(run.log)}}

C15_PasswordNotLogged ==
    (crun.called /\ crun.cmd # <<>> /\ ctwin.cmd # <<>>) =>
        /\ crun.log = ctwin.log
        /\ Str(cargs.password) \notin LoggedPieces(crun)
        /\ Str("********") \in LoggedPieces(crun)

\* Both runs started the subprocess with their own password, and it failed.
C15_Witness ==
    /\ crun.called /\ crun.cmd # <<>> /\ ctwin.cmd # <<>>
    /\ crun.cmd[4] = "secret" /\ ctwin.cmd[4] = "hunter2"
    /\ coutcome.kind = "exit" /\ coutcome.returncode = 1
    /\ Len(crun.log) >= 2

(***************************************************************************)
(* C16: get_local_ip always returns, and tries its strategies in order,    *)
(* the first success winning: the local address of the connected UDP       *)
(* socket unless it is loopback; else the first address of the hostname    *)
(* that begins with "192.168." or "10."; else the literal "127.0.0.1". A   *)
(* step that raises falls through to the next, so a loopback result is the *)
(* step-3 literal.                                                         *)
(***************************************************************************)
Loopback(ip) == StartsWith(ip, LoopbackPrefix)

UdpSucceeds == gudp.ok /\ ~Loopback(gudp.ips[1])

PrivateAt(i) == StartsWith(ghost.ips[i], Prefix192) \/ StartsWith(ghost.ips[i], Prefix10)

HostSucceeds == ghost.ok /\ \E i \in 1..Len(ghost.ips) : PrivateAt(i)

FirstPrivate ==
    ghost.ips[CHOOSE i \in 1..Len(ghost.ips) : PrivateAt(i) /\ \A j \in 1..(i - 1) : ~PrivateAt(j)]

C16_StrategiesInOrder ==
    (gpc = "returned") =>
        /\ gresult.step \in 1..3
        /\ gresult.ip # <<>>
        /\ UdpSucceeds => gresult = [ip |-> gudp.ips[1], step |-> 1]
        /\ (~UdpSucceeds /\ HostSucceeds) => gresult = [ip |-> FirstPrivate, step |-> 2]
        /\ (~UdpSucceeds /\ ~HostSucceeds) => gresult = [ip |-> FallbackLiteral, step |-> 3]
        /\ Loopback(gresult.ip) => gresult = [ip |-> FallbackLiteral, step |-> 3]

\* The UDP address was loopback, the hostname listed no private address, and the literal came back.
C16_Witness ==
    /\ gpc = "returned"
    /\ gudp.ok /\ Loopback(gudp.ips[1])
    /\ ghost.ok /\ ghost.ips # <<>>
    /\ gresult.step = 3

(***************************************************************************)
(* C20: start_stream gives launch the decoded address whenever             *)
(* decode_connection_code returns a string for the trimmed input, and the  *)
(* trimmed input itself whenever it returns None; in particular a typed IP *)
(* address or hostname that is not a connection code reaches launch        *)
(* unchanged.                                                              *)
(***************************************************************************)
\* A letter, a digit, "-" or ".": the characters of an address or a hostname.
IsHostChar(c) == c \in ((48..57) \cup (65..90) \cup (97..122) \cup {45, 46})

\* An IP address or hostname typed as it is, not a "GSP-" code.
TypedLiteral(code) ==
    /\ code # <<>>
    /\ \A i \in 1..Len(code) : IsHostChar(code[i])
    /\ ~StartsWith(code, Prefix)

StreamLaunched == spc = "done" /\ rop = "launch"

C20_DecodedOrRaw ==
    StreamLaunched =>
        LET code == Strip(stext)
            decoded == decode_connection_code(code) IN
        /\ decoded.ok => largs.host = decoded.val
        /\ ~decoded.ok => largs.host = code
        /\ TypedLiteral(code) => largs.host = code

\* A typed hostname reached launch as another string.
C20_HostnameGarbled ==
    /\ StreamLaunched
    /\ TypedLiteral(Strip(stext))
    /\ largs.host # Strip(stext)
    /\ spawn.attempted

(***************************************************************************)
(* C13: at any time at most one SunshineStatusWorker is running; a timer   *)
(* tick or refresh that arrives while a worker is still running starts no  *)
(* new worker, and one that arrives after the previous worker finished     *)
(* starts exactly one.                                                     *)
(***************************************************************************)
Outstanding(ws) == {i \in 1..Len(ws) : ws[i] # "finished"}

RefreshStep == sticks' = sticks + 1 \/ (~stimer.active /\ stimer'.active)

C13_OneStatusCheck ==
    /\ [](Cardinality(Outstanding(sworkers)) <= 1)
    /\ [][RefreshStep =>
            IF Outstanding(sworkers) # {}
            THEN sworkers' = sworkers
            ELSE /\ Len(sworkers') = Len(sworkers) + 1
                 /\ Outstanding(sworkers') = {Len(sworkers')}
                 /\ SubSeq(sworkers', 1, Len(sworkers)) = sworkers]_vars

\* A tick found the worker running and started none, and a later tick started the second worker.
C13_Witness ==
    /\ Len(sworkers) = 2
    /\ sticks = 3
    /\ sworkers[1] = "finished"
    /\ sworkers[2] = "started"

(***************************************************************************)
(* C18: when an install completes with success but with no executable      *)
(* found (a null or empty path), the slot reports a "tool missing" outcome *)
(* of its own, distinct from the notification of a successful install and  *)
(* from the "Not configured" text, and does not announce a successful      *)
(* installation.                                                           *)
(***************************************************************************)
InstalledWithoutExe == npc = "handled" /\ nargs.success /\ ~Truthy(nargs.res)

C18_ToolMissingReported ==
    InstalledWithoutExe =>
        /\ nbox # NoBox
        /\ nbox # InstalledBox(ntool)
        /\ nbox.text # "Not configured"

(***************************************************************************)
(* C12: every blocking operation (a process spawn, the TCP reachability    *)
(* probe, the PIN HTTP call, the credentials subprocess call) runs on a    *)
(* background worker and never on the UI thread, whatever the UI handlers  *)
(* do.                                                                     *)
(***************************************************************************)
C12_BlockingOffUiThread == \A call \in hlog : call.thread = "worker"

(***************************************************************************)
(* C21: load_config never raises and, for any file content, returns a      *)
(* mapping with unique keys in which each key maps to the value of the     *)
(* last line carrying that key; a line with no "=" adds no entry and does  *)
(* not keep the other lines from loading; a missing file gives the empty   *)
(* mapping. As stated it fails for content that is not valid UTF-8; it     *)
(* holds for every content that decodes.                                   *)
(***************************************************************************)
FileLines == Lines(ReadTranslate(file.data))

Carrying == {i \in 1..Len(FileLines) : \E j \in 1..Len(FileLines[i]) : FileLines[i][j] = EqualsSign}

\* The key and the value a "key=value" line carries.
FirstEquals(t) == CHOOSE n \in 1..Len(t) : t[n] = EqualsSign /\ \A j \in 1..(n - 1) : t[j] # EqualsSign

KeyOf(line) == SubSeq(Strip(line), 1, FirstEquals(Strip(line)) - 1)

ValueOf(line) == Strip(DropFirst(Strip(line), FirstEquals(Strip(line))))

LastCarrying(k) ==
    CHOOSE i \in Carrying : KeyOf(FileLines[i]) = k
                            /\ \A j \in Carrying : KeyOf(FileLines[j]) = k => j <= i

LastWins ==
    /\ Cardinality(Keys(loaded)) = Len(loaded)
    /\ Keys(loaded) = {KeyOf(FileLines[i]) : i \in Carrying}
    /\ \A n \in 1..Len(loaded) : loaded[n][2] = ValueOf(FileLines[LastCarrying(loaded[n][1])])

\* open() itself did not fail.
Opened == ~("load" \in faults /\ Encodable(file.data))

C21_AnyContent ==
    (kpc = "loaded" /\ Opened) =>
        IF file.exists THEN LastWins ELSE loaded = <<>>

C21_DecodableContent ==
    (kpc = "loaded" /\ Opened) =>
        IF ~file.exists THEN loaded = <<>> /\ faults = {}
        ELSE IF Encodable(file.data) THEN LastWins /\ faults = {}
        ELSE loaded = <<>> /\ faults = {"load"}

\* "a=1", "junk", "a=2" was loaded as a -> "2".
C21_Witness ==
    /\ kpc = "loaded"
    /\ file.exists
    /\ file.data = <<97, 61, 49, 10, 106, 117, 110, 107, 10, 97, 61, 50>>
    /\ loaded = << <<(<<97>>), (<<50>>)>> >>

(***************************************************************************)
(* C22: over any sequence of save_credentials calls, a call with an empty  *)
(* username or password changes neither SunshineAPI.auth nor the config;   *)
(* any other call stores its credentials in the config, and auth becomes   *)
(* those credentials when initialize_credentials succeeded and is kept     *)
(* otherwise. So auth is always the credentials of the last call that      *)
(* succeeded, or the startup value, and the config the last credentials    *)
(* submitted.                                                              *)
(***************************************************************************)
\* The warning of a call that had an empty field.
MissingData == Warning("Missing Data", "Please enter both username and password.")

SaveCredentialsStep ==
    IF hbox' = MissingData
    THEN auth' = auth /\ hcreds' = hcreds
    ELSE /\ hcreds' = [saved |-> TRUE, sunshine_user |-> cargs'.username,
                                      sunshine_pass |-> cargs'.password]
         /\ cargs'.username # "" /\ cargs'.password # ""
         /\ auth' = (IF crun'.ok THEN <<cargs'.username, cargs'.password>> ELSE auth)

C22_AuthFollowsSuccess == [][SaveCredentialsStep]_vars

\* "hunter2" was initialized, then "secret" was submitted and failed: auth
\* still holds "hunter2" while the config holds "secret".
C22_Witness ==
    /\ hleft <= MaxCalls - 2
    /\ auth = <<"admin", "hunter2">>
    /\ hcreds = [saved |-> TRUE, sunshine_user |-> "admin", sunshine_pass |-> "secret"]
    /\ crun.called /\ ~crun.ok

(***************************************************************************)
(* C23: set_custom_path(path) replaces the custom path only when path is   *)
(* non-empty and exists on disk; otherwise the stored custom path is left  *)
(* as it was, and a later _find_executable still returns it while its file *)
(* exists. The custom path may so differ from the path last passed in,     *)
(* which is the one written to the config.                                 *)
(***************************************************************************)
\* The disk changes in no step of the manager, and in every other step.
SetCustomPathStep ==
    (rop' = "set_custom_path" /\ fs' = fs) =>
        IF rarg'.some /\ rarg'.path # "" /\ rarg'.path \in fs
        THEN custom_path' = rarg'
        ELSE custom_path' = custom_path

FindExecutableStep ==
    (rop' = "find" /\ fs' = fs /\ custom_path.some /\ custom_path.path # "" /\ custom_path.path \in fs) =>
        rpath' = custom_path

C23_CustomPathKept == [][SetCustomPathStep /\ FindExecutableStep]_vars

\* A path that is not on disk was passed in after one that was: the manager
\* still holds the earlier one.
C23_Witness ==
    /\ rop = "set_custom_path"
    /\ rarg = PathOf("D:\\Games\\Sunshine\\sunshine.exe")
    /\ ~("D:\\Games\\Sunshine\\sunshine.exe" \in fs)
    /\ custom_path = PathOf(SYSTEM_PATHS[3])

(***************************************************************************)
(* C24: an install run that failed at the release-index query (a status    *)
(* other than 200) or at the asset selection (no match) has made no        *)
(* download request, created no directory and written no archive; the      *)
(* target directory is created only once an asset has been resolved.       *)
(***************************************************************************)
IndexFailures ==
    {Some(<<"GitHub API Failed: ", st>>) : st \in IndexStatuses \ {200}}
        \cup {Some(Msg(NoSuitableMessage(tool)))}

FailedBeforeDownload == ipc = "returned" /\ ~result.success /\ result.res \in IndexFailures

\* Nothing of the download has happened: no "Downloading..." callback, no
\* response to a download request, no byte received, no archive, nothing
\* extracted.
NothingDownloaded ==
    /\ done \subseteq {"cb_check", "query"}
    /\ events = <<10>>
    /\ url = None /\ header = HeaderAbsent /\ dl = 0
    /\ ~zipExists /\ exe = None

InstallStep ==
    /\ FailedBeforeDownload' => (NothingDownloaded' /\ dirExists' = dirExists)
    /\ dirExists' # dirExists => (url.ok /\ "select" \in done)
    /\ zipExists' # zipExists => (url.ok /\ "mkdir" \in done)

C24_NoDownloadBeforeAsset == [][InstallStep]_vars

\* The index held no matching asset and the target directory did not exist:
\* the run is over and the directory still does not exist.
C24_Witness ==
    /\ ipc = "returned"
    /\ result = [success |-> FALSE, res |-> Some(Msg(NoSuitableMessage(tool)))]
    /\ "query" \in done
    /\ ~dirExists /\ ~zipExists

(***************************************************************************)
(* C25: after any sequence of update_status calls, the one of the          *)
(* construction included, the status action button has exactly one click   *)
(* handler connected, and it matches the status shown last: open_web_ui    *)
(* when the last result was running, start_sunshine otherwise.             *)
(***************************************************************************)
C25_OneClickHandler ==
    /\ Len(sclick) = 1
    /\ sclick[1] = (IF slabel = "reachable" THEN "open_web_ui" ELSE "start_sunshine")

\* A worker's result replaced the handler of the construction, and a later
\* result is still to come.
C25_Witness ==
    /\ sclick = <<"open_web_ui">>
    /\ slabel = "reachable"
    /\ sticks >= 1 /\ squeue # <<>>

(***************************************************************************)
(* C26: an install completion with success=false leaves the config in      *)
(* memory, the config file and the backend objects (the manager's custom   *)
(* path, the MoonlightRunner) as they were; one with success=true puts the *)
(* path under the key of the tool that was installed and under no other    *)
(* key, and hands the config to save_config before on_paths_changed        *)
(* refreshes the backend objects from it.                                  *)
(***************************************************************************)
InstalledKey == IF ntool = "sunshine" THEN "sunshine_path" ELSE "moonlight_path"

\* The place of a call among the calls the slot made.
CallAt(calls, c) == CHOOSE i \in 1..Len(calls) : calls[i] = c

InstalledSlotStep ==
    IF nargs.success
    THEN /\ nconfig'[InstalledKey] = nargs.res
         /\ \A k \in DOMAIN nconfig : k # InstalledKey => nconfig'[k] = nconfig[k]
         /\ nsaved' = [saved |-> TRUE, cfg |-> nconfig']
         /\ CallAt(ncalls', "save_config") < CallAt(ncalls', "on_paths_changed")
         /\ exe_path' = (IF nconfig'["moonlight_path"].some /\ nconfig'["moonlight_path"].path # ""
                         THEN nconfig'["moonlight_path"] ELSE FirstExisting(DEFAULT_PATHS))
         /\ custom_path' \in {custom_path, nconfig'["sunshine_path"]}
    ELSE /\ nconfig' = nconfig /\ nsaved' = nsaved
         /\ custom_path' = custom_path /\ exe_path' = exe_path /\ fs' = fs
         /\ ~(\E i \in 1..Len(ncalls') : ncalls'[i] \in {"save_config", "on_paths_changed"})

C26_InstalledSlot == [][InstalledSlotStep]_vars

\* Moonlight was installed with a Sunshine path already set: the Moonlight
\* key holds the new path, the Sunshine key what it held, and the runner was
\* rebuilt with the new path.
C26_Witness ==
    /\ npc = "handled" /\ ntool = "moonlight" /\ nargs.success
    /\ nconfig["moonlight_path"] = PathOf(InstalledPath("moonlight"))
    /\ nconfig["sunshine_path"] = PathOf(SYSTEM_PATHS[1])
    /\ nsaved = [saved |-> TRUE, cfg |-> nconfig]
    /\ exe_path = PathOf(InstalledPath("moonlight"))

====
